---- MODULE Spec2Model ----
(***************************************************************************)
(* Model of the SpecGen build engine: the candidate ranker                 *)
(* (src/lib/search.ts), the build parser (build-parser.ts) and the build   *)
(* analyzer (build-analyzer.ts).  The module-level catalog array           *)
(* `products` is the only state the operations share; op and args are the  *)
(* operation a request asks for and its inputs, ret what the last call     *)
(* returned and calls how often the operation has run on these inputs.     *)
(*                                                                         *)
(* JavaScript strings are sequences of one-character strings, optional     *)
(* fields are <<>> (undefined) or <<v>> (present).                         *)
(***************************************************************************)
EXTENDS FiniteSets, Integers, Sequences, TLC

VARIABLES products, embeddingMap, registry, apiKeyCursor, requests,
          op, args, ret, calls, first

vars == <<products, embeddingMap, registry, apiKeyCursor, requests,
          op, args, ret, calls, first>>

----------------------------------------------------------------------------
(* JavaScript values and string primitives *)

None == <<>>
Some(v) == <<v>>

\* the character U+20B9 (Indian rupee sign)
Rupee == "rupee"

\* the result of parseInt on a string with no leading digits
NaN == -1

\* the null returned by parseBudgetFromQuery
NoBudget == -2

UpperChars == <<"A", "B", "C", "D", "E", "F", "G", "H", "I", "J", "K", "L", "M",
                "N", "O", "P", "Q", "R", "S", "T", "U", "V", "W", "X", "Y", "Z">>

LowerChars == <<"a", "b", "c", "d", "e", "f", "g", "h", "i", "j", "k", "l", "m",
                "n", "o", "p", "q", "r", "s", "t", "u", "v", "w", "x", "y", "z">>

DigitChars == <<"0", "1", "2", "3", "4", "5", "6", "7", "8", "9">>

IsDigit(c) == \E i \in 1..10 : DigitChars[i] = c

DigitVal(c) == (CHOOSE i \in 1..10 : DigitChars[i] = c) - 1

IsSpace(c) == c \in {" ", "\t", "\n"}

IsWordChar(c) ==
    \/ IsDigit(c)
    \/ c = "_"
    \/ \E i \in 1..26 : LowerChars[i] = c \/ UpperChars[i] = c

LowerChar(c) ==
    IF \E i \in 1..26 : UpperChars[i] = c
    THEN LowerChars[CHOOSE i \in 1..26 : UpperChars[i] = c]
    ELSE c

toLowerCase(s) == [i \in 1..Len(s) |-> LowerChar(s[i])]

\* the character at 1-based position i, "" outside the string
CharAt(s, i) == IF i >= 1 /\ i <= Len(s) THEN s[i] ELSE ""

StartsAt(s, i, t) ==
    /\ i + Len(t) - 1 <= Len(s)
    /\ \A k \in 1..Len(t) : s[i + k - 1] = t[k]

\* String.prototype.includes
includes(s, t) == \E i \in 1..(Len(s) - Len(t) + 1) : StartsAt(s, i, t)

\* membership of a character in a regex character class: \d, \s or [\d,]
InClass(c, class) ==
    CASE class = "digit" -> IsDigit(c)
      [] class = "space" -> IsSpace(c)
      [] class = "number" -> IsDigit(c) \/ c = ","

\* length of the longest run of characters of a class that starts at j
RunLen(s, j, class) ==
    CHOOSE n \in 0..(Len(s) - j + 1) :
        /\ \A k \in 0..(n - 1) : InClass(s[j + k], class)
        /\ (j + n > Len(s) \/ ~InClass(s[j + n], class))

\* s.replace(/\D/g, "")
DigitsOnly(s) == SelectSeq(s, IsDigit)

RECURSIVE DigitsToNat(_)
DigitsToNat(d) ==
    IF d = <<>> THEN 0
    ELSE DigitsToNat(SubSeq(d, 1, Len(d) - 1)) * 10 + DigitVal(d[Len(d)])

\* String(n) for an integer n >= 0
RECURSIVE NumberToString(_)
NumberToString(n) ==
    IF n < 10 THEN <<DigitChars[n + 1]>>
    ELSE Append(NumberToString(n \div 10), DigitChars[(n % 10) + 1])

\* parseInt(s, 10) for a string without sign or leading blanks: the leading
\* digits, NaN when there are none
parseInt(s) ==
    LET n == RunLen(s, 1, "digit")
    IN IF n = 0 THEN NaN ELSE DigitsToNat(SubSeq(s, 1, n))

Min(a, b) == IF a <= b THEN a ELSE b

Max(a, b) == IF a >= b THEN a ELSE b

Abs(x) == IF x < 0 THEN 0 - x ELSE x

\* Array.prototype.slice(0, n) for n >= 0
slice(s, n) == SubSeq(s, 1, Min(n, Len(s)))

\* Array.prototype.sort with a comparator (a, b) => key(a) - key(b): stable,
\* keys[i] is the key of s[i]
SortByKey(s, keys) ==
    LET rank(i) == Cardinality({j \in 1..Len(s) : keys[j] < keys[i]})
                   + Cardinality({j \in 1..(i - 1) : keys[j] = keys[i]}) + 1
    IN [r \in 1..Len(s) |-> s[CHOOSE i \in 1..Len(s) : rank(i) = r]]

\* the elements of a sequence, as a set
Range(s) == {s[i] : i \in 1..Len(s)}

----------------------------------------------------------------------------
(* search.ts: budget and build-query detection *)

BUILD_CATEGORIES ==
    <<"CPU", "GPU", "Motherboard", "RAM", "Storage", "PSU", "Case", "CPU Cooler">>

\* the alternatives of (?:rs\.?|inr|<rupee>) in the order the regex tries them
CurrencyMarkers ==
    << <<"r", "s", ".">>, <<"r", "s">>, <<"i", "n", "r">>, <<Rupee>>, <<>> >>

IsNumChar(c) == InClass(c, "number")

\* \b between positions e-1 and e
WordBoundary(s, e) == IsWordChar(CharAt(s, e - 1)) # IsWordChar(CharAt(s, e))

\* ([\d,]+)\s*(k)?\b matched from position j: m number characters, w blanks,
\* k = 1 when the suffix is taken
TailOK(s, j, m, w, k) ==
    /\ k = 1 => CharAt(s, j + m + w) = "k"
    /\ WordBoundary(s, j + m + w + k)

TailSet(s, j) ==
    UNION { { t \in {m} \X (0..RunLen(s, j + m, "space")) \X {0, 1} :
                TailOK(s, j, t[1], t[2], t[3]) } :
            m \in 1..RunLen(s, j, "number") }

\* greedy quantifiers: the longest number, then the most blanks, then the k
LexGE(t, u) ==
    \/ t[1] > u[1]
    \/ t[1] = u[1] /\ t[2] > u[2]
    \/ t[1] = u[1] /\ t[2] = u[2] /\ t[3] >= u[3]

\* the match that starts at position i with the o-th currency alternative
MatchWith(s, i, o) ==
    LET mk == CurrencyMarkers[o]
        j  == i + Len(mk) + RunLen(s, i + Len(mk), "space")
    IN IF StartsAt(s, i, mk) /\ IsNumChar(CharAt(s, j))
       THEN LET ts == TailSet(s, j)
            IN IF ts = {} THEN None
               ELSE LET t == CHOOSE t \in ts : \A u \in ts : LexGE(t, u)
                    IN Some([digits |-> SubSeq(s, j, j + t[1] - 1), k |-> t[3] = 1])
       ELSE None

\* the alternatives are tried in order at one start position
RECURSIVE MatchFromOption(_, _, _)
MatchFromOption(s, i, o) ==
    IF o > Len(CurrencyMarkers) THEN None
    ELSE LET m == MatchWith(s, i, o)
         IN IF m # None THEN m ELSE MatchFromOption(s, i, o + 1)

MatchAt(s, i) == MatchFromOption(s, i, 1)

\* String.prototype.match without the g flag: the leftmost match
RECURSIVE MatchFromPosition(_, _)
MatchFromPosition(s, i) ==
    IF i > Len(s) + 1 THEN None
    ELSE LET m == MatchAt(s, i)
         IN IF m # None THEN m ELSE MatchFromPosition(s, i + 1)

budgetMatch(s) == MatchFromPosition(s, 1)

IsNotComma(c) == c # ","

parseBudgetFromQuery(query) ==
    LET scaled(m, budget) ==
            IF budget = NaN THEN NoBudget
            ELSE IF m[1].k \/ budget <= 999 THEN budget * 1000
            ELSE budget
        parsed(m) ==
            IF m = None THEN NoBudget
            ELSE scaled(m, parseInt(SelectSeq(m[1].digits, IsNotComma)))
    IN parsed(budgetMatch(toLowerCase(query)))

BuildIndicators ==
    << <<"p", "c">>, <<"b", "u", "i", "l", "d">>,
       <<"c", "o", "m", "p", "u", "t", "e", "r">>, <<"r", "i", "g">>,
       <<"s", "e", "t", "u", "p">>,
       <<"g", "a", "m", "i", "n", "g", " ", "p", "c">>,
       <<"w", "o", "r", "k", "s", "t", "a", "t", "i", "o", "n">>,
       <<"g", "a", "m", "i", "n", "g">> >>

isBuildQuery(query) ==
    LET queryLower == toLowerCase(query)
        hasBuildTerm == \E i \in 1..Len(BuildIndicators) :
                            includes(queryLower, BuildIndicators[i])
        hasBudget == parseBudgetFromQuery(queryLower) # NoBudget
    IN hasBuildTerm \/ hasBudget

----------------------------------------------------------------------------
(* products.ts: the Product record *)

NoSpecs ==
    [socket |-> None, wattage |-> None, tdp |-> None, length_mm |-> None,
     height_mm |-> None, tdp_rating |-> None, max_cooler_height_mm |-> None,
     max_gpu_length_mm |-> None, type |-> None, speed |-> None,
     chipset |-> None]

Product(id, name, category, brand, price, stock, tier, specs) ==
    [id |-> id, name |-> name, normalized_name |-> toLowerCase(name),
     category |-> category, brand |-> brand, price |-> price, stock |-> stock,
     performance_tier |-> tier, specs |-> specs]

\* p.stock !== false
InStock(p) == p.stock # Some(FALSE)

\* an embeddingMap without entries
NoEmbeddings == <<>>

\* the registries when the registry files cannot be read
NoRegistry == [gpus |-> None, cpus |-> None]

\* no chat request has arrived
NoRequests == <<>>

----------------------------------------------------------------------------
(* search.ts: deduplication, budget allocation and balancing *)

\* a key without the price
dedupeKeyNoPrice(p) ==
    <<p.category, "|">>
    \o (IF p.normalized_name # <<>> THEN p.normalized_name ELSE toLowerCase(p.name))

\* `${p.category}|${p.normalized_name || p.name.toLowerCase()}|${p.price}`
\* as a string; the category stands in it as one element
dedupeKey(p) ==
    <<p.category, "|">>
    \o (IF p.normalized_name # <<>> THEN p.normalized_name ELSE toLowerCase(p.name))
    \o <<"|">> \o NumberToString(p.price)

RECURSIVE dedupeLoop(_, _, _, _)
dedupeLoop(list, i, seen, result) ==
    IF i > Len(list) THEN result
    ELSE IF dedupeKey(list[i]) \in seen
         THEN dedupeLoop(list, i + 1, seen, result)
         ELSE dedupeLoop(list, i + 1, seen \cup {dedupeKey(list[i])},
                         Append(result, list[i]))

dedupeProducts(list) == dedupeLoop(list, 1, {}, <<>>)

\* the share of the budget a category receives, in percent
categoryBudgetPercent(category) ==
    CASE category = "GPU" -> 35
      [] category = "CPU" -> 25
      [] category = "Motherboard" -> 15
      [] category = "RAM" -> 10
      [] category = "Storage" -> 8
      [] category = "PSU" -> 8
      [] category = "Case" -> 8
      [] category = "CPU Cooler" -> 5
      [] OTHER -> 10

\* 100 x categoryBudgetTarget(category, budget); the products of the budgets
\* and shares used here are exact in double arithmetic
categoryBudgetTarget100(category, budget) == budget * categoryBudgetPercent(category)

\* p.price <= target * 1.5
WithinUpperBound(p, category, budget) ==
    200 * p.price <= 3 * categoryBudgetTarget100(category, budget)

\* Math.abs(p.price - target), times 100
TargetDistance100(p, category, budget) ==
    Abs(100 * p.price - categoryBudgetTarget100(category, budget))

\* [...list].sort((a, b) => a.price - b.price)
sortByPrice(list) == SortByKey(list, [i \in 1..Len(list) |-> list[i].price])

\* pickCategoryFallback with the price <= upperBound filter left out
\* the cheapest item within the bound instead of the nearest to the target
pickCategoryFallbackCheapest(category, budget, prods) ==
    LET candidates == SelectSeq(prods, LAMBDA p : p.category = category /\ InStock(p))
        near == SelectSeq(candidates, LAMBDA p : WithinUpperBound(p, category, budget))
    IN IF Len(candidates) = 0 THEN None
       ELSE IF budget = NoBudget \/ budget = 0 THEN Some(sortByPrice(candidates)[1])
       ELSE IF Len(near) > 0 THEN Some(sortByPrice(near)[1])
       ELSE Some(sortByPrice(candidates)[1])

pickCategoryFallbackNoBound(category, budget, prods) ==
    LET candidates == SelectSeq(prods, LAMBDA p : p.category = category /\ InStock(p))
        nearTarget == SortByKey(candidates,
                        [i \in 1..Len(candidates) |->
                            TargetDistance100(candidates[i], category, budget)])
    IN IF Len(candidates) = 0 THEN None
       ELSE IF budget = NoBudget \/ budget = 0 THEN Some(sortByPrice(candidates)[1])
       ELSE Some(nearTarget[1])

pickCategoryFallback(category, budget, prods) ==
    LET candidates == SelectSeq(prods, LAMBDA p : p.category = category /\ InStock(p))
        near == SelectSeq(candidates, LAMBDA p : WithinUpperBound(p, category, budget))
        nearTarget == SortByKey(near,
                        [i \in 1..Len(near) |-> TargetDistance100(near[i], category, budget)])
    IN IF Len(candidates) = 0 THEN None
       ELSE IF budget = NoBudget \/ budget = 0 THEN Some(sortByPrice(candidates)[1])
       ELSE IF Len(nearTarget) > 0 THEN Some(nearTarget[1])
       ELSE Some(sortByPrice(candidates)[1])

Ids(list) == {list[i].id : i \in 1..Len(list)}

\* findFromInitial with the category test left out
findFromInitialAnyCategory(deduped, category, selected) ==
    LET hits == {i \in 1..Len(deduped) : deduped[i].id \notin Ids(selected)}
    IN IF hits = {} THEN None
       ELSE Some(deduped[CHOOSE i \in hits : \A j \in hits : i <= j])

\* deduped.find((p) => p.category === category && !selectedIds.has(p.id))
findFromInitial(deduped, category, selected) ==
    LET hits == {i \in 1..Len(deduped) :
                    deduped[i].category = category /\ deduped[i].id \notin Ids(selected)}
    IN IF hits = {} THEN None
       ELSE Some(deduped[CHOOSE i \in hits : \A j \in hits : i <= j])

\* the loop over BUILD_CATEGORIES
RECURSIVE selectByCategory(_, _, _, _, _)
selectByCategory(deduped, budget, prods, c, selected) ==
    IF c > Len(BUILD_CATEGORIES) THEN selected
    ELSE LET fromInitial == findFromInitial(deduped, BUILD_CATEGORIES[c], selected)
             candidate == IF fromInitial # None THEN fromInitial
                          ELSE pickCategoryFallback(BUILD_CATEGORIES[c], budget, prods)
         IN IF candidate = None \/ candidate[1].id \in Ids(selected)
            THEN selectByCategory(deduped, budget, prods, c + 1, selected)
            ELSE selectByCategory(deduped, budget, prods, c + 1,
                                  Append(selected, candidate[1]))

\* the loop over the deduplicated results that fills the list up to the limit
RECURSIVE topUp(_, _, _, _)
topUp(deduped, limit, i, selected) ==
    IF i > Len(deduped) \/ Len(selected) >= limit THEN selected
    ELSE IF deduped[i].id \in Ids(selected)
         THEN topUp(deduped, limit, i + 1, selected)
         ELSE topUp(deduped, limit, i + 1, Append(selected, deduped[i]))

\* optimizeResultsForQuery with the final slice of the build path left out
optimizeResultsForQueryNoSlice(query, initialResults, limit, prods) ==
    LET deduped == dedupeProducts(initialResults)
        budget == parseBudgetFromQuery(query)
        balanced == selectByCategory(deduped, budget, prods, 1, <<>>)
    IN IF ~isBuildQuery(query) THEN slice(deduped, limit)
       ELSE topUp(deduped, limit, 1, balanced)

optimizeResultsForQuery(query, initialResults, limit, prods) ==
    LET deduped == dedupeProducts(initialResults)
        budget == parseBudgetFromQuery(query)
        balanced == selectByCategory(deduped, budget, prods, 1, <<>>)
    IN IF ~isBuildQuery(query) THEN slice(deduped, limit)
       ELSE slice(topUp(deduped, limit, 1, balanced), limit)

----------------------------------------------------------------------------
(* build-analyzer.ts: the compatibility and value analyzer *)

\* a JavaScript string is truthy when it is present and not empty
TruthyString(o) == o # None /\ o[1] # <<>>

\* o || dflt for an optional number
NumberOr(o, dflt) == IF o = None \/ o[1] = 0 THEN dflt ELSE o[1]

\* o?.toLowerCase() || "" for an optional string
LowerOrEmpty(o) == IF o = None THEN <<>> ELSE toLowerCase(o[1])

\* confidence is in hundredths
ParsedComponent(category, rawText, matchedProduct, confidence, extractedPrice, sourceURL) ==
    [category |-> category, rawText |-> rawText, matchedProduct |-> matchedProduct,
     confidence |-> confidence, extractedPrice |-> extractedPrice,
     sourceURL |-> sourceURL]

ParsedBuild(components, unmatchedText) ==
    [components |-> components, unmatchedText |-> unmatchedText]

Issue(type, severity, title, params, alternativeProduct, savingsAmount) ==
    [type |-> type, severity |-> severity, title |-> title, params |-> params,
     alternativeProduct |-> alternativeProduct, savingsAmount |-> savingsAmount]

REQUIRED_CATEGORIES == <<"CPU", "GPU", "RAM", "Motherboard", "PSU", "Storage">>

\* TIER_SCORES[tier ?? "mid-range"] || 2
tierScore(tier) ==
    IF tier = None THEN 2
    ELSE CASE tier[1] = "budget" -> 1
           [] tier[1] = "mid-range" -> 2
           [] tier[1] = "high-end" -> 3
           [] OTHER -> 2

\* a Map<string, Product> is the sequence of its entries in insertion order
MapHas(m, k) == \E i \in 1..Len(m) : m[i][1] = k

MapGet(m, k) ==
    IF MapHas(m, k) THEN Some(m[CHOOSE i \in 1..Len(m) : m[i][1] = k][2]) ELSE None

\* a set that leaves a key that is already present alone (first value wins)
MapSetKeepFirst(m, k, v) == IF MapHas(m, k) THEN m ELSE Append(m, <<k, v>>)

\* Map.prototype.set: a new key is appended, an existing key keeps its place
\* and takes the new value
MapSet(m, k, v) ==
    IF MapHas(m, k)
    THEN [i \in 1..Len(m) |-> IF m[i][1] = k THEN <<k, v>> ELSE m[i]]
    ELSE Append(m, <<k, v>>)

RECURSIVE matchedLoop(_, _, _)
matchedLoop(components, i, m) ==
    IF i > Len(components) THEN m
    ELSE IF components[i].matchedProduct # None
         THEN matchedLoop(components, i + 1,
                          MapSet(m, components[i].category, components[i].matchedProduct[1]))
         ELSE matchedLoop(components, i + 1, m)

matchedByCategoryOf(build) == matchedLoop(build.components, 1, <<>>)

\* parseInt(p.specs.tdp?.replace(/\D/g, "") || dflt)
tdpOr(p, dflt) ==
    IF p.specs.tdp = None \/ DigitsOnly(p.specs.tdp[1]) = <<>> THEN dflt
    ELSE parseInt(DigitsOnly(p.specs.tdp[1]))

\* estimateTotalTDP without the 100 W overhead
estimateTotalTDPNoOverhead(cpu, gpu) == tdpOr(cpu, 65) + tdpOr(gpu, 150)

estimateTotalTDP(cpu, gpu) == tdpOr(cpu, 65) + tdpOr(gpu, 150) + 100

\* Math.ceil(estimatedTDP * 1.3 / 50) * 50; the double arithmetic agrees with
\* the exact quotient for every draw from 100 W to 1500 W
recommendedWattageFor(estimatedTDP) == ((estimatedTDP * 13 + 499) \div 500) * 50

\* psuWattage < estimatedTDP * 1.2
psuInsufficient(psuWattage, estimatedTDP) == 5 * psuWattage < 6 * estimatedTDP

First(list) == IF Len(list) = 0 THEN None ELSE Some(list[1])

findBetterPSU(minWattage, prods) ==
    First(SelectSeq(prods, LAMBDA p : p.category = "PSU"
                                       /\ NumberOr(p.specs.wattage, 0) >= minWattage))

KwDdr5 == <<"d", "d", "r", "5">>

KwDdr4 == <<"d", "d", "r", "4">>

\* detectDDRType with the DDR5 speed threshold off by one (mhz > 4800)
detectDDRTypeOffByOne(ram) ==
    LET name == toLowerCase(ram.name)
        type == LowerOrEmpty(ram.specs.type)
        mhz == IF TruthyString(ram.specs.speed)
               THEN parseInt(DigitsOnly(ram.specs.speed[1])) ELSE NaN
    IN IF includes(name, KwDdr5) \/ includes(type, KwDdr5) THEN "DDR5"
       ELSE IF includes(name, KwDdr4) \/ includes(type, KwDdr4) THEN "DDR4"
       ELSE IF mhz > 4800 THEN "DDR5"
       ELSE IF mhz >= 2133 /\ mhz <= 4800 THEN "DDR4"
       ELSE "null"

detectDDRType(ram) ==
    LET name == toLowerCase(ram.name)
        type == LowerOrEmpty(ram.specs.type)
        mhz == IF TruthyString(ram.specs.speed)
               THEN parseInt(DigitsOnly(ram.specs.speed[1])) ELSE NaN
    IN IF includes(name, KwDdr5) \/ includes(type, KwDdr5) THEN "DDR5"
       ELSE IF includes(name, KwDdr4) \/ includes(type, KwDdr4) THEN "DDR4"
       ELSE IF mhz >= 4800 THEN "DDR5"
       ELSE IF mhz >= 2133 /\ mhz < 4800 THEN "DDR4"
       ELSE "null"

includesAny(s, words) == \E i \in 1..Len(words) : includes(s, words[i])

ChipsetsDDR5 == <<<<"b", "6", "5", "0">>, <<"x", "6", "7", "0">>, <<"x", "8", "7", "0">>>>

ChipsetsDDR4 == <<<<"b", "5", "5", "0">>, <<"x", "5", "7", "0">>, <<"b", "4", "5", "0">>>>

ChipsetsDDR5Intel == <<<<"z", "7", "9", "0">>, <<"z", "6", "9", "0">>>>

ChipsetsDDR4Intel == <<<<"b", "6", "6", "0">>, <<"h", "6", "7", "0">>, <<"b", "7", "6", "0">>>>

detectMoboDDRSupport(mobo) ==
    LET name == toLowerCase(mobo.name)
        chipset == LowerOrEmpty(mobo.specs.chipset)
        type == LowerOrEmpty(mobo.specs.type)
    IN IF includes(name, KwDdr5) \/ includes(type, KwDdr5) THEN "DDR5"
       ELSE IF includes(name, KwDdr4) \/ includes(type, KwDdr4) THEN "DDR4"
       ELSE IF includesAny(chipset, ChipsetsDDR5) THEN "DDR5"
       ELSE IF includesAny(chipset, ChipsetsDDR4) THEN "DDR4"
       ELSE IF includesAny(chipset, ChipsetsDDR5Intel) THEN "DDR5"
       ELSE IF includesAny(chipset, ChipsetsDDR4Intel) THEN "DDR4"
       ELSE "null"

IntelCpuWords == <<<<"i", "n", "t", "e", "l">>, <<"c", "o", "r", "e", " ", "i">>>>

AmdCpuWords == <<<<"a", "m", "d">>, <<"r", "y", "z", "e", "n">>, <<"a", "t", "h", "l", "o", "n">>>>

detectCPUBrand(cpu) ==
    LET name == toLowerCase(cpu.name)
        brand == toLowerCase(cpu.brand)
    IN IF includes(brand, <<"i", "n", "t", "e", "l">>) \/ includesAny(name, IntelCpuWords) THEN "Intel"
       ELSE IF includes(brand, <<"a", "m", "d">>) \/ includesAny(name, AmdCpuWords) THEN "AMD"
       ELSE "null"

AmdChipsets == <<<<"b", "6", "5", "0">>, <<"x", "6", "7", "0">>, <<"x", "8", "7", "0">>, <<"b", "5", "5", "0">>, <<"x", "5", "7", "0">>, <<"b", "4", "5", "0">>, <<"x", "3", "7", "0">>, <<"b", "3", "5", "0">>, <<"a", "5", "2", "0">>>>

IntelChipsets == <<<<"z", "7", "9", "0">>, <<"z", "6", "9", "0">>, <<"b", "7", "6", "0">>, <<"b", "6", "6", "0">>, <<"h", "6", "7", "0">>, <<"h", "6", "1", "0">>, <<"z", "5", "9", "0">>, <<"b", "5", "6", "0">>, <<"h", "5", "1", "0">>>>

AmdBoardWords == <<<<"a", "m", "d">>, <<"a", "m", "4">>, <<"a", "m", "5">>>>

IntelBoardWords == <<<<"i", "n", "t", "e", "l">>, <<"l", "g", "a", " ", "1", "7", "0", "0">>, <<"l", "g", "a", " ", "1", "2", "0", "0">>>>

detectMoboPlatform(mobo) ==
    LET name == toLowerCase(mobo.name)
        chipset == LowerOrEmpty(mobo.specs.chipset)
    IN IF includesAny(chipset, AmdChipsets) THEN "AMD"
       ELSE IF includesAny(chipset, IntelChipsets) THEN "Intel"
       ELSE IF includesAny(name, AmdBoardWords) THEN "AMD"
       ELSE IF includesAny(name, IntelBoardWords) THEN "Intel"
       ELSE "null"

\* the rating test of findAftermarketCooler: an unrated cooler is suitable
coolerSuitable(c, cpuTDP) ==
    IF ~TruthyString(c.specs.tdp_rating) THEN TRUE
    ELSE parseInt(DigitsOnly(c.specs.tdp_rating[1])) >= cpuTDP

findAftermarketCooler(cpuTDP, prods) ==
    First(sortByPrice(SelectSeq(prods, LAMBDA p : p.category = "CPU Cooler"
                                                  /\ coolerSuitable(p, cpuTDP))))

\* the filter of checkOverspending; 0.75 x price is exact in double arithmetic
isCheaperAlternative(p, category, product) ==
    /\ p.category = category
    /\ p.id # product.id
    /\ 4 * p.price < 3 * product.price
    /\ InStock(p)
    /\ p.performance_tier = product.performance_tier

RECURSIVE overspendingLoop(_, _, _, _)
overspendingLoop(matched, allProducts, i, issues) ==
    IF i > Len(matched) THEN issues
    ELSE LET category == matched[i][1]
             product == matched[i][2]
             alternatives == SelectSeq(allProducts,
                                LAMBDA p : isCheaperAlternative(p, category, product))
             cheapest == sortByPrice(alternatives)[1]
         IN IF Len(alternatives) > 0 /\ product.price - cheapest.price >= 2000
            THEN overspendingLoop(matched, allProducts, i + 1,
                    Append(issues,
                           Issue("overspending", "info", "Overspending",
                                 <<category, product.name, product.price, cheapest.name>>,
                                 Some(cheapest), Some(product.price - cheapest.price))))
            ELSE overspendingLoop(matched, allProducts, i + 1, issues)

checkOverspending(matched, allProducts) == overspendingLoop(matched, allProducts, 1, <<>>)

\* the rules of analyzeBuild, each the list of issues it pushes
missingCategoriesOf(matched) ==
    SelectSeq(REQUIRED_CATEGORIES, LAMBDA cat : ~MapHas(matched, cat))

missingRule(matched) ==
    IF Len(missingCategoriesOf(matched)) > 0
    THEN << Issue("missing", "info", "Incomplete Build",
                  missingCategoriesOf(matched), None, None) >>
    ELSE <<>>

bottleneckRule(cpu, gpu) ==
    IF cpu = None \/ gpu = None THEN <<>>
    ELSE LET cpuTier == tierScore(cpu[1].performance_tier)
             gpuTier == tierScore(gpu[1].performance_tier)
         IN IF cpuTier < gpuTier
            THEN << Issue("bottleneck", "warning", "CPU Bottleneck Detected",
                          <<cpu[1].name, gpu[1].name>>, None, None) >>
            ELSE IF gpuTier < cpuTier
            THEN << Issue("bottleneck", "info", "GPU Bottleneck Detected",
                          <<gpu[1].name, cpu[1].name>>, None, None) >>
            ELSE <<>>

psuRule(cpu, gpu, psu, prods) ==
    IF cpu = None \/ gpu = None \/ psu = None THEN <<>>
    ELSE LET estimatedTDP == estimateTotalTDP(cpu[1], gpu[1])
             psuWattage == NumberOr(psu[1].specs.wattage, 0)
             recommendedWattage == recommendedWattageFor(estimatedTDP)
         IN IF psuInsufficient(psuWattage, estimatedTDP)
            THEN << Issue("psu_warning", "critical", "Insufficient PSU Wattage",
                          [psu |-> psu[1].name, psuWattage |-> psuWattage,
                           estimatedTDP |-> estimatedTDP,
                           recommendedWattage |-> recommendedWattage],
                          findBetterPSU(recommendedWattage, prods), None) >>
            ELSE <<>>

\* the socket rule without the test that both sockets are present
socketRuleNoPresenceTest(cpu, mobo) ==
    IF cpu = None \/ mobo = None THEN <<>>
    ELSE IF cpu[1].specs.socket # mobo[1].specs.socket
         THEN << Issue("compatibility", "critical", "Socket Mismatch",
                       <<cpu[1].name, cpu[1].specs.socket, mobo[1].name,
                         mobo[1].specs.socket>>, None, None) >>
         ELSE <<>>

socketRule(cpu, mobo) ==
    IF cpu = None \/ mobo = None THEN <<>>
    ELSE IF /\ TruthyString(cpu[1].specs.socket)
            /\ TruthyString(mobo[1].specs.socket)
            /\ cpu[1].specs.socket # mobo[1].specs.socket
         THEN << Issue("compatibility", "critical", "Socket Mismatch",
                       <<cpu[1].name, cpu[1].specs.socket, mobo[1].name,
                         mobo[1].specs.socket>>, None, None) >>
         ELSE <<>>

coolerClearanceRule(cooler, pcCase) ==
    IF cooler = None \/ pcCase = None THEN <<>>
    ELSE LET coolerHeight == NumberOr(cooler[1].specs.height_mm, 0)
             maxCoolerHeight == NumberOr(pcCase[1].specs.max_cooler_height_mm, 999)
         IN IF coolerHeight > maxCoolerHeight
            THEN << Issue("compatibility", "critical", "Cooler Won't Fit",
                          <<cooler[1].name, coolerHeight, pcCase[1].name, maxCoolerHeight>>,
                          None, None) >>
            ELSE <<>>

gpuLengthRule(gpu, pcCase) ==
    IF gpu = None \/ pcCase = None THEN <<>>
    ELSE LET gpuLength == NumberOr(gpu[1].specs.length_mm, 0)
             maxGpuLength == NumberOr(pcCase[1].specs.max_gpu_length_mm, 999)
         IN IF gpuLength > maxGpuLength
            THEN << Issue("compatibility", "critical", "GPU Won't Fit",
                          <<gpu[1].name, gpuLength, pcCase[1].name, maxGpuLength>>,
                          None, None) >>
            ELSE <<>>

ramRule(ram, mobo) ==
    IF ram = None \/ mobo = None THEN <<>>
    ELSE LET ramType == detectDDRType(ram[1])
             moboRamType == detectMoboDDRSupport(mobo[1])
         IN IF ramType # "null" /\ moboRamType # "null" /\ ramType # moboRamType
            THEN << Issue("ram_compatibility", "critical", "RAM Type Mismatch",
                          <<ram[1].name, ramType, mobo[1].name, moboRamType>>,
                          None, None) >>
            ELSE <<>>

platformRule(cpu, mobo) ==
    IF cpu = None \/ mobo = None THEN <<>>
    ELSE LET cpuBrand == detectCPUBrand(cpu[1])
             moboPlatform == detectMoboPlatform(mobo[1])
         IN IF cpuBrand # "null" /\ moboPlatform # "null" /\ cpuBrand # moboPlatform
            THEN << Issue("chipset_mismatch", "critical", "Platform Mismatch",
                          <<cpu[1].name, cpuBrand, mobo[1].name, moboPlatform>>,
                          None, None) >>
            ELSE <<>>

coolingRule(cpu, cooler, prods) ==
    IF cpu = None \/ cooler # None THEN <<>>
    ELSE LET cpuTDP == tdpOr(cpu[1], 65)
         IN IF cpuTDP >= 105
            THEN << Issue("cooling_inadequate", "warning", "Cooling May Be Insufficient",
                          <<cpu[1].name, cpuTDP>>,
                          findAftermarketCooler(cpuTDP, prods), None) >>
            ELSE <<>>

RECURSIVE totalPriceLoop(_, _)
totalPriceLoop(matched, i) ==
    IF i > Len(matched) THEN 0
    ELSE matched[i][2].price + totalPriceLoop(matched, i + 1)

severityPenalty(issue) ==
    IF issue.severity = "critical" THEN 25
    ELSE IF issue.severity = "warning" THEN 10
    ELSE 5

RECURSIVE scoreLoop(_, _, _)
scoreLoop(issues, i, overallScore) ==
    IF i > Len(issues) THEN overallScore
    ELSE scoreLoop(issues, i + 1, overallScore - severityPenalty(issues[i]))

\* the score without Math.max(0, ...)
overallScoreNoFloor(issues) == scoreLoop(issues, 1, 100)

overallScoreOf(issues) == Max(0, scoreLoop(issues, 1, 100))

analyzeBuild(build, prods) ==
    LET matched == matchedByCategoryOf(build)
        cpu == MapGet(matched, "CPU")
        gpu == MapGet(matched, "GPU")
        psu == MapGet(matched, "PSU")
        mobo == MapGet(matched, "Motherboard")
        cooler == MapGet(matched, "CPU Cooler")
        pcCase == MapGet(matched, "Case")
        ram == MapGet(matched, "RAM")
        issues == missingRule(matched)
                  \o bottleneckRule(cpu, gpu)
                  \o psuRule(cpu, gpu, psu, prods)
                  \o socketRule(cpu, mobo)
                  \o coolerClearanceRule(cooler, pcCase)
                  \o gpuLengthRule(gpu, pcCase)
                  \o ramRule(ram, mobo)
                  \o platformRule(cpu, mobo)
                  \o coolingRule(cpu, cooler, prods)
                  \o checkOverspending(matched, prods)
    IN [issues |-> issues,
        totalPrice |-> totalPriceLoop(matched, 1),
        missingCategories |-> missingCategoriesOf(matched),
        overallScore |-> overallScoreOf(issues)]

\* the catalog array after analyzeBuild, had checkOverspending sorted
\* allProducts itself instead of the filtered copy
productsSortedByAnalyzeBuild(build, prods) ==
    IF Len(matchedByCategoryOf(build)) > 0 THEN sortByPrice(prods) ELSE prods

\* the catalog array after analyzeBuild: findAftermarketCooler and
\* checkOverspending sort only the arrays that filter() returned
productsAfterAnalyzeBuild(build, prods) == prods

----------------------------------------------------------------------------
(* Regular expressions: syntax trees and backtracking matching *)

\* no upper limit on a repetition
Unbounded == -1

\* a literal string
Lit(chars) == [kind |-> "lit", chars |-> chars]

\* one character: listed or of a listed class, or (neg) none of them
CharSet(neg, chars, classes) ==
    [kind |-> "set", neg |-> neg, chars |-> chars, classes |-> classes]

Cat(parts) == [kind |-> "cat", parts |-> parts]

Alt(parts) == [kind |-> "alt", parts |-> parts]

\* a greedy repetition of, min to max times
Rep(of, min, max) == [kind |-> "rep", of |-> of, min |-> min, max |-> max]

\* the assertions \b, ^ and $
WordB == [kind |-> "wb"]

Bol == [kind |-> "bol"]

Eol == [kind |-> "eol"]

InCharSet(c, re) ==
    (c \in re.chars \/ \E class \in re.classes : InClass(c, class)) # re.neg

\* the first of a set of positions, 0 if there is none
FirstIn(hits) == IF hits = {} THEN 0 ELSE CHOOSE i \in hits : \A j \in hits : i <= j

\* the elements of a sequence, each kept at its first occurrence
Uniq(list) ==
    SelectSeq([i \in 1..Len(list) |-> IF \E j \in 1..(i - 1) : list[j] = list[i]
                                      THEN 0 ELSE list[i]],
              LAMBDA x : x # 0)

\* Ends(re, s, i): the positions after the matches of re that start at
\* position i of s, in the order in which backtracking tries them
RECURSIVE Ends(_, _, _)
RECURSIVE EndsEach(_, _, _, _)
RECURSIVE EndsCat(_, _, _, _)
RECURSIVE EndsAlt(_, _, _, _)
RECURSIVE EndsRep(_, _, _, _)
RECURSIVE EndsRepEach(_, _, _, _, _)

EndsEach(re, s, starts, n) ==
    IF n > Len(starts) THEN <<>>
    ELSE Ends(re, s, starts[n]) \o EndsEach(re, s, starts, n + 1)

EndsCat(parts, k, s, starts) ==
    IF k > Len(parts) \/ starts = <<>> THEN starts
    ELSE EndsCat(parts, k + 1, s, Uniq(EndsEach(parts[k], s, starts, 1)))

EndsAlt(parts, k, s, i) ==
    IF k > Len(parts) THEN <<>>
    ELSE Ends(parts[k], s, i) \o EndsAlt(parts, k + 1, s, i)

EndsRepEach(re, s, starts, k, n) ==
    IF k > Len(starts) THEN <<>>
    ELSE EndsRep(re, s, starts[k], n) \o EndsRepEach(re, s, starts, k + 1, n)

\* a repetition of one character from position i: stop is the first position
\* that holds no such character, and the longest repetition comes first
EndsRepSet(re, s, i) ==
    LET upTo(stop) ==
            LET last == IF re.max = Unbounded THEN stop ELSE Min(stop, i + re.max)
            IN IF last < i + re.min THEN <<>>
               ELSE [n \in 1..(last - (i + re.min) + 1) |-> last - n + 1]
    IN upTo(CHOOSE j \in i..(Len(s) + 1) :
                /\ (j > Len(s) \/ ~InCharSet(s[j], re.of))
                /\ \A k \in i..(j - 1) : InCharSet(s[k], re.of))

\* n repetitions have been matched up to position i
EndsRep(re, s, i, n) ==
    LET more == IF re.max = Unbounded \/ n < re.max
                THEN SelectSeq(Ends(re.of, s, i), LAMBDA j : j # i)
                ELSE <<>>
    IN Uniq(EndsRepEach(re, s, more, 1, n + 1)
            \o (IF n >= re.min THEN <<i>> ELSE <<>>))

Ends(re, s, i) ==
    CASE re.kind = "lit" ->
            IF StartsAt(s, i, re.chars) THEN <<i + Len(re.chars)>> ELSE <<>>
      [] re.kind = "set" ->
            IF i <= Len(s) /\ InCharSet(s[i], re) THEN <<i + 1>> ELSE <<>>
      [] re.kind = "wb" ->
            IF IsWordChar(CharAt(s, i - 1)) # IsWordChar(CharAt(s, i))
            THEN <<i>> ELSE <<>>
      [] re.kind = "bol" -> IF i = 1 THEN <<i>> ELSE <<>>
      [] re.kind = "eol" -> IF i = Len(s) + 1 THEN <<i>> ELSE <<>>
      [] re.kind = "cat" -> EndsCat(re.parts, 1, s, <<i>>)
      [] re.kind = "alt" -> Uniq(EndsAlt(re.parts, 1, s, i))
      [] re.kind = "rep" ->
            IF re.of.kind = "set" THEN EndsRepSet(re, s, i) ELSE EndsRep(re, s, i, 0)

\* the first match of re in s at or after position i, as <<start, end>>
\* (end is the position after the match), None when there is none
FirstMatchFrom(re, s, i) ==
    LET leftmost(starts) ==
            IF starts = {} THEN None
            ELSE Some(<<FirstIn(starts), Ends(re, s, FirstIn(starts))[1]>>)
    IN leftmost({j \in i..(Len(s) + 1) : Ends(re, s, j) # <<>>})

\* RegExp.prototype.test for a pattern without flags
Test(re, s) == FirstMatchFrom(re, s, 1) # None

\* RegExp.prototype.test for a pattern with the i flag, whose literals are
\* written in lower case
TestI(re, s) == Test(re, toLowerCase(s))

----------------------------------------------------------------------------
(* build-parser: category patterns *)

\* \s*
Blanks == Rep(CharSet(FALSE, {}, {"space"}), 0, Unbounded)

\* \d
Digit == CharSet(FALSE, {}, {"digit"})

\* [a-z]
Letter ==
    CharSet(FALSE, {"a", "b", "c", "d", "e", "f", "g", "h", "i", "j", "k", "l", "m", "n",
                    "o", "p", "q", "r", "s", "t", "u", "v", "w", "x", "y", "z"}, {})

\* CATEGORY_PATTERNS, in the order of Object.entries; every pattern has the
\* i flag and is written in lower case
CATEGORY_PATTERNS ==
    <<
      <<"GPU", <<
         \* /\b(rtx|gtx|rx|radeon|geforce|nvidia|amd)\s*\d{3,4}\s*(ti|xt|super|s)?\b/i
         Cat(<<WordB, Alt(<<Lit(<<"r", "t", "x">>), Lit(<<"g", "t", "x">>), Lit(<<"r", "x">>), Lit(<<"r", "a", "d", "e", "o", "n">>), Lit(<<"g", "e", "f", "o", "r", "c", "e">>), Lit(<<"n", "v", "i", "d", "i", "a">>), Lit(<<"a", "m", "d">>)>>),
           Blanks, Rep(Digit, 3, 4), Blanks, Rep(Alt(<<Lit(<<"t", "i">>), Lit(<<"x", "t">>), Lit(<<"s", "u", "p", "e", "r">>), Lit(<<"s">>)>>), 0, 1),
           WordB>>),
         \* /\bgraphics?\s*card\b/i
         Cat(<<WordB, Lit(<<"g", "r", "a", "p", "h", "i", "c">>), Rep(Lit(<<"s">>), 0, 1),
           Blanks, Lit(<<"c", "a", "r", "d">>), WordB>>),
         \* /\bgpu\b/i
         Cat(<<WordB, Lit(<<"g", "p", "u">>), WordB>>)
      >> >>,
      <<"CPU", <<
         \* /\b(ryzen|intel|core)\s*(i[3579]|[3579])\s*[-\s]?\d{4,5}[a-z]*/i
         Cat(<<WordB, Alt(<<Lit(<<"r", "y", "z", "e", "n">>), Lit(<<"i", "n", "t", "e", "l">>), Lit(<<"c", "o", "r", "e">>)>>),
           Blanks, Alt(<<Cat(<<Lit(<<"i">>), CharSet(FALSE, {"3", "5", "7", "9"}, {})>>), CharSet(FALSE, {"3", "5", "7", "9"}, {})>>),
           Blanks, Rep(CharSet(FALSE, {"-"}, {"space"}), 0, 1), Rep(Digit, 4, 5),
           Rep(Letter, 0, Unbounded)>>),
         \* /\b(i[3579])\s*[-\s]?\d{4,5}[a-z]*/i
         Cat(<<WordB, Cat(<<Lit(<<"i">>), CharSet(FALSE, {"3", "5", "7", "9"}, {})>>),
           Blanks, Rep(CharSet(FALSE, {"-"}, {"space"}), 0, 1), Rep(Digit, 4, 5),
           Rep(Letter, 0, Unbounded)>>),
         \* /\bprocessor\b/i
         Cat(<<WordB, Lit(<<"p", "r", "o", "c", "e", "s", "s", "o", "r">>),
           WordB>>),
         \* /\bcpu\b/i
         Cat(<<WordB, Lit(<<"c", "p", "u">>), WordB>>)
      >> >>,
      <<"RAM", <<
         \* /\b\d+\s*gb\s*(ddr[45])?\s*(ram)?\b/i
         Cat(<<WordB, Rep(Digit, 1, Unbounded), Blanks, Lit(<<"g", "b">>),
           Blanks, Rep(Cat(<<Lit(<<"d", "d", "r">>), CharSet(FALSE, {"4", "5"}, {})>>), 0, 1),
           Blanks, Rep(Lit(<<"r", "a", "m">>), 0, 1), WordB>>),
         \* /\b(ddr[45])\s*\d+\s*gb\b/i
         Cat(<<WordB, Cat(<<Lit(<<"d", "d", "r">>), CharSet(FALSE, {"4", "5"}, {})>>),
           Blanks, Rep(Digit, 1, Unbounded), Blanks, Lit(<<"g", "b">>), WordB>>),
         \* /\bram\b/i
         Cat(<<WordB, Lit(<<"r", "a", "m">>), WordB>>),
         \* /\bmemory\b/i
         Cat(<<WordB, Lit(<<"m", "e", "m", "o", "r", "y">>), WordB>>),
         \* /\btrident\b/i
         Cat(<<WordB, Lit(<<"t", "r", "i", "d", "e", "n", "t">>), WordB>>),
         \* /\bvengeance\b/i
         Cat(<<WordB, Lit(<<"v", "e", "n", "g", "e", "a", "n", "c", "e">>),
           WordB>>)
      >> >>,
      <<"Motherboard", <<
         \* /\b(b[456][56]0|x[56]70|z[67]90|h[67]10)\b/i
         Cat(<<WordB, Alt(<<Cat(<<Lit(<<"b">>), CharSet(FALSE, {"4", "5", "6"}, {}), CharSet(FALSE, {"5", "6"}, {}), Lit(<<"0">>)>>), Cat(<<Lit(<<"x">>), CharSet(FALSE, {"5", "6"}, {}), Lit(<<"7", "0">>)>>), Cat(<<Lit(<<"z">>), CharSet(FALSE, {"6", "7"}, {}), Lit(<<"9", "0">>)>>), Cat(<<Lit(<<"h">>), CharSet(FALSE, {"6", "7"}, {}), Lit(<<"1", "0">>)>>)>>),
           WordB>>),
         \* /\b(motherboard|mobo|mainboard)\b/i
         Cat(<<WordB, Cat(<<Lit(<<"m">>), Alt(<<Lit(<<"o", "t", "h", "e", "r", "b", "o", "a", "r", "d">>), Lit(<<"o", "b", "o">>), Lit(<<"a", "i", "n", "b", "o", "a", "r", "d">>)>>)>>),
           WordB>>),
         \* /\btomahawk\b/i
         Cat(<<WordB, Lit(<<"t", "o", "m", "a", "h", "a", "w", "k">>), WordB>>),
         \* /\bstrix\b/i
         Cat(<<WordB, Lit(<<"s", "t", "r", "i", "x">>), WordB>>)
      >> >>,
      <<"PSU", <<
         \* /\b\d{3,4}\s*w(att)?\b/i
         Cat(<<WordB, Rep(Digit, 3, 4), Blanks, Lit(<<"w">>), Rep(Lit(<<"a", "t", "t">>), 0, 1),
           WordB>>),
         \* /\b(psu|power\s*supply)\b/i
         Cat(<<WordB, Cat(<<Lit(<<"p">>), Alt(<<Lit(<<"s", "u">>), Cat(<<Lit(<<"o", "w", "e", "r">>), Blanks, Lit(<<"s", "u", "p", "p", "l", "y">>)>>)>>)>>),
           WordB>>),
         \* /\b(gold|platinum|bronze|titanium)\s*(rated|certified)?\b/i
         Cat(<<WordB, Alt(<<Lit(<<"g", "o", "l", "d">>), Lit(<<"p", "l", "a", "t", "i", "n", "u", "m">>), Lit(<<"b", "r", "o", "n", "z", "e">>), Lit(<<"t", "i", "t", "a", "n", "i", "u", "m">>)>>),
           Blanks, Rep(Alt(<<Lit(<<"r", "a", "t", "e", "d">>), Lit(<<"c", "e", "r", "t", "i", "f", "i", "e", "d">>)>>), 0, 1),
           WordB>>),
         \* /\brm\d{3,4}\b/i
         Cat(<<WordB, Lit(<<"r", "m">>), Rep(Digit, 3, 4), WordB>>),
         \* /\bcorsair\s+rm/i
         Cat(<<WordB, Lit(<<"c", "o", "r", "s", "a", "i", "r">>), Rep(CharSet(FALSE, {}, {"space"}), 1, Unbounded),
           Lit(<<"r", "m">>)>>)
      >> >>,
      <<"Case", <<
         \* /\b(case|chassis|cabinet|tower)\b/i
         Cat(<<WordB, Alt(<<Lit(<<"c", "a", "s", "e">>), Lit(<<"c", "h", "a", "s", "s", "i", "s">>), Lit(<<"c", "a", "b", "i", "n", "e", "t">>), Lit(<<"t", "o", "w", "e", "r">>)>>),
           WordB>>),
         \* /\b(lancool|meshify|h[57]10|4000d|5000d)\b/i
         Cat(<<WordB, Alt(<<Lit(<<"l", "a", "n", "c", "o", "o", "l">>), Lit(<<"m", "e", "s", "h", "i", "f", "y">>), Cat(<<Lit(<<"h">>), CharSet(FALSE, {"5", "7"}, {}), Lit(<<"1", "0">>)>>), Lit(<<"4", "0", "0", "0", "d">>), Lit(<<"5", "0", "0", "0", "d">>)>>),
           WordB>>),
         \* /\b(mid\s*tower|full\s*tower|atx\s*case)\b/i
         Cat(<<WordB, Alt(<<Cat(<<Lit(<<"m", "i", "d">>), Blanks, Lit(<<"t", "o", "w", "e", "r">>)>>), Cat(<<Lit(<<"f", "u", "l", "l">>), Blanks, Lit(<<"t", "o", "w", "e", "r">>)>>), Cat(<<Lit(<<"a", "t", "x">>), Blanks, Lit(<<"c", "a", "s", "e">>)>>)>>),
           WordB>>)
      >> >>,
      <<"Storage", <<
         \* /\b(ssd|nvme|hdd|hard\s*drive)\b/i
         Cat(<<WordB, Alt(<<Lit(<<"s", "s", "d">>), Lit(<<"n", "v", "m", "e">>), Lit(<<"h", "d", "d">>), Cat(<<Lit(<<"h", "a", "r", "d">>), Blanks, Lit(<<"d", "r", "i", "v", "e">>)>>)>>),
           WordB>>),
         \* /\b(sn770|980\s*pro|970\s*evo|wd\s*black)\b/i
         Cat(<<WordB, Alt(<<Lit(<<"s", "n", "7", "7", "0">>), Cat(<<Lit(<<"9", "8", "0">>), Blanks, Lit(<<"p", "r", "o">>)>>), Cat(<<Lit(<<"9", "7", "0">>), Blanks, Lit(<<"e", "v", "o">>)>>), Cat(<<Lit(<<"w", "d">>), Blanks, Lit(<<"b", "l", "a", "c", "k">>)>>)>>),
           WordB>>),
         \* /\b\d+\s*(tb|gb)\s*(ssd|nvme|storage)?\b/i
         Cat(<<WordB, Rep(Digit, 1, Unbounded), Blanks, Alt(<<Lit(<<"t", "b">>), Lit(<<"g", "b">>)>>),
           Blanks, Rep(Alt(<<Lit(<<"s", "s", "d">>), Lit(<<"n", "v", "m", "e">>), Lit(<<"s", "t", "o", "r", "a", "g", "e">>)>>), 0, 1),
           WordB>>)
      >> >>,
      <<"CPU Cooler", <<
         \* /\b(cooler|cooling|heatsink|aio)\b/i
         Cat(<<WordB, Alt(<<Lit(<<"c", "o", "o", "l", "e", "r">>), Lit(<<"c", "o", "o", "l", "i", "n", "g">>), Lit(<<"h", "e", "a", "t", "s", "i", "n", "k">>), Lit(<<"a", "i", "o">>)>>),
           WordB>>),
         \* /\b(ak620|nh-d15|hyper\s*212|dark\s*rock)\b/i
         Cat(<<WordB, Alt(<<Lit(<<"a", "k", "6", "2", "0">>), Lit(<<"n", "h", "-", "d", "1", "5">>), Cat(<<Lit(<<"h", "y", "p", "e", "r">>), Blanks, Lit(<<"2", "1", "2">>)>>), Cat(<<Lit(<<"d", "a", "r", "k">>), Blanks, Lit(<<"r", "o", "c", "k">>)>>)>>),
           WordB>>),
         \* /\b\d{2,3}mm\s*(aio|radiator)\b/i
         Cat(<<WordB, Rep(Digit, 2, 3), Lit(<<"m", "m">>), Blanks, Alt(<<Lit(<<"a", "i", "o">>), Lit(<<"r", "a", "d", "i", "a", "t", "o", "r">>)>>),
           WordB>>)
      >> >>
    >>

\* /type\s*\|\s*item/i
TypeItemPattern == Cat(<<Lit(<<"t", "y", "p", "e">>), Blanks, Lit(<<"|">>), Blanks, Lit(<<"i", "t", "e", "m">>)>>)

\* /\|\s*pcpartpicker/i
PcppPattern == Cat(<<Lit(<<"|">>), Blanks, Lit(<<"p", "c", "p", "a", "r", "t", "p", "i", "c", "k", "e", "r">>)>>)

\* /\*\*[A-Z]+\*\*/i
MarkdownPattern == Cat(<<Lit(<<"*", "*">>), Rep(Letter, 1, Unbounded), Lit(<<"*", "*">>)>>)

\* /type\s*\|/i
HeaderPattern == Cat(<<Lit(<<"t", "y", "p", "e">>), Blanks, Lit(<<"|">>)>>)

\* /\|\s*(?:\*\*)?([^|*]+)(?:\*\*)?\s*\|\s*\[?([^\]|]+)/, as the list of its
\* parts; the groups are parts 4 and 10
TableRowParts ==
    <<Lit(<<"|">>),
      Blanks,
      Rep(Lit(<<"*", "*">>), 0, 1),
      Rep(CharSet(TRUE, {"|", "*"}, {}), 1, Unbounded),
      Rep(Lit(<<"*", "*">>), 0, 1),
      Blanks,
      Lit(<<"|">>),
      Blanks,
      Rep(Lit(<<"[">>), 0, 1),
      Rep(CharSet(TRUE, {"]", "|"}, {}), 1, Unbounded)>>

\* /^([^:]+):\s*(.+)$/, as the list of its parts; the groups are parts 2 and 5
ColonParts ==
    <<Bol,
      Rep(CharSet(TRUE, {":"}, {}), 1, Unbounded),
      Lit(<<":">>),
      Blanks,
      Rep(CharSet(TRUE, {"\n"}, {}), 1, Unbounded),
      Eol>>

\* /[₹$Rs\.]+\s*([\d,]+)/i, as the list of its parts; the group is part 3
PriceParts ==
    <<Rep(CharSet(FALSE, {Rupee, "$", "r", "s", "."}, {}), 1, Unbounded),
      Blanks,
      Rep(CharSet(FALSE, {","}, {"digit"}), 1, Unbounded)>>

\* /https?:\/\/(www\.)?(amazon\.(in|com)|flipkart\.com)[^\s\n"'<>]+/gi
UrlPattern ==
    Cat(<<Lit(<<"h", "t", "t", "p">>), Rep(Lit(<<"s">>), 0, 1), Lit(<<":", "/", "/">>),
      Rep(Lit(<<"w", "w", "w", ".">>), 0, 1), Alt(<<Cat(<<Lit(<<"a", "m", "a", "z", "o", "n", ".">>), Alt(<<Lit(<<"i", "n">>), Lit(<<"c", "o", "m">>)>>)>>), Lit(<<"f", "l", "i", "p", "k", "a", "r", "t", ".", "c", "o", "m">>)>>),
      Rep(CharSet(TRUE, {"\n", "\"", "'", "<", ">"}, {"space"}), 1, Unbounded)>>)

\* /^https?:\/\//i
UrlLinePattern == Cat(<<Bol, Lit(<<"h", "t", "t", "p">>), Rep(Lit(<<"s">>), 0, 1), Lit(<<":", "/", "/">>)>>)

----------------------------------------------------------------------------
(* build-parser: string helpers *)

WhiteSpace == {" ", "\t", "\n"}

\* String.prototype.trim
trim(s) ==
    IF \A i \in 1..Len(s) : IsSpace(s[i]) THEN <<>>
    ELSE SubSeq(s,
                CHOOSE i \in 1..Len(s) :
                    ~IsSpace(s[i]) /\ \A j \in 1..(i - 1) : IsSpace(s[j]),
                CHOOSE i \in 1..Len(s) :
                    ~IsSpace(s[i]) /\ \A j \in (i + 1)..Len(s) : IsSpace(s[j]))

\* String.prototype.split on a pattern [seps]+ : the pieces between the
\* runs of separators, empty first and last pieces included
RECURSIVE SplitRuns(_, _)
SplitRuns(s, seps) ==
    IF \A i \in 1..Len(s) : s[i] \notin seps THEN <<s>>
    ELSE LET p == CHOOSE i \in 1..Len(s) :
                      s[i] \in seps /\ \A j \in 1..(i - 1) : s[j] \notin seps
             q == CHOOSE n \in p..Len(s) :
                      /\ \A j \in p..n : s[j] \in seps
                      /\ (n = Len(s) \/ s[n + 1] \notin seps)
         IN <<SubSeq(s, 1, p - 1)>> \o SplitRuns(SubSeq(s, q + 1, Len(s)), seps)

\* String.prototype.split on one separator character
RECURSIVE SplitExact(_, _)
SplitExact(s, sep) ==
    IF \A i \in 1..Len(s) : s[i] # sep THEN <<s>>
    ELSE LET p == CHOOSE i \in 1..Len(s) :
                      s[i] = sep /\ \A j \in 1..(i - 1) : s[j] # sep
         IN <<SubSeq(s, 1, p - 1)>> \o SplitExact(SubSeq(s, p + 1, Len(s)), sep)

\* s.replace(/-/g, " ")
DashesToBlanks(s) == [i \in 1..Len(s) |-> IF s[i] = "-" THEN " " ELSE s[i]]

NonEmpty(s) == s # <<>>

NonBlank(s) == trim(s) # <<>>

\* the boundaries <<p1, ..., pn+1>> of the first way, in backtracking order,
\* to match parts k.. of a pattern from position i: part j matches from pj to
\* pj+1; <<>> when there is none
RECURSIVE PathFrom(_, _, _, _)
RECURSIVE PathEach(_, _, _, _, _, _)

PathEach(parts, k, s, i, ends, n) ==
    IF n > Len(ends) THEN <<>>
    ELSE LET rest == PathFrom(parts, k + 1, s, ends[n])
         IN IF rest # <<>> THEN <<i>> \o rest
            ELSE PathEach(parts, k, s, i, ends, n + 1)

PathFrom(parts, k, s, i) ==
    IF k > Len(parts) THEN <<i>>
    ELSE PathEach(parts, k, s, i, Ends(parts[k], s, i), 1)

\* String.prototype.match for a pattern without the g flag: the boundaries
\* of the parts in the leftmost match
FirstPathFrom(parts, s, i) ==
    LET leftmost(starts) ==
            IF starts = {} THEN <<>> ELSE PathFrom(parts, 1, s, FirstIn(starts))
    IN leftmost({j \in i..(Len(s) + 1) : PathFrom(parts, 1, s, j) # <<>>})

\* the text matched by part k on a path
Group(s, path, k) == SubSeq(s, path[k], path[k + 1] - 1)

\* String.prototype.match with the g flag: the matches from left to right
RECURSIVE AllMatchesFrom(_, _, _)
AllMatchesFrom(re, s, i) ==
    LET m == FirstMatchFrom(re, s, i)
    IN IF m = None THEN <<>>
       ELSE <<m[1]>> \o AllMatchesFrom(re, s, IF m[1][2] > m[1][1] THEN m[1][2]
                                                ELSE m[1][2] + 1)

----------------------------------------------------------------------------
(* build-parser: matching against the catalog *)

\* matches / termWords.length for one search term, as <<matches, words>>
termScore(text, term) ==
    LET termWords == SplitRuns(term, WhiteSpace)
    IN << Cardinality({i \in 1..Len(termWords) :
                          Len(termWords[i]) > 2 /\ includes(text, termWords[i])}),
          Len(termWords) >>

\* a > b for fractions <<numerator, denominator>>
FractionGreater(a, b) == a[1] * b[2] > b[1] * a[2]

FractionMax(a, b) == IF FractionGreater(b, a) THEN b ELSE a

\* the lower limit 0.3 of a match score
MinMatchScore == <<3, 10>>

calculateMatchScore(text, product) ==
    FractionMax(FractionMax(FractionMax(<<0, 1>>,
                                        termScore(text, product.normalized_name)),
                            termScore(text, toLowerCase(product.name))),
                termScore(text, toLowerCase(product.brand)))

RECURSIVE findBestMatchLoop(_, _, _, _, _)
findBestMatchLoop(textLower, categoryProducts, i, bestMatch, bestScore) ==
    IF i > Len(categoryProducts) THEN bestMatch
    ELSE LET better(score) ==
                 FractionGreater(score, bestScore) /\ FractionGreater(score, MinMatchScore)
             step(score) ==
                 findBestMatchLoop(textLower, categoryProducts, i + 1,
                                   IF better(score) THEN Some(categoryProducts[i])
                                   ELSE bestMatch,
                                   IF better(score) THEN score ELSE bestScore)
         IN step(calculateMatchScore(textLower, categoryProducts[i]))

\* category names are atoms, and no two of them differ only in case, so the
\* comparison of the lower-cased names is the comparison of the names
findBestMatch(text, prods, category) ==
    findBestMatchLoop(toLowerCase(text),
                      SelectSeq(prods, LAMBDA p : p.category = category),
                      1, None, <<0, 1>>)

\* the brand tested before the name
calculateConfidenceBrandFirst(text, product) ==
    IF includes(toLowerCase(text), toLowerCase(product.brand)) THEN 80
    ELSE IF includes(toLowerCase(text), toLowerCase(product.normalized_name)) THEN 95
    ELSE 60

\* the confidence, in hundredths
calculateConfidence(text, product) ==
    IF includes(toLowerCase(text), toLowerCase(product.normalized_name)) THEN 95
    ELSE IF includes(toLowerCase(text), toLowerCase(product.brand)) THEN 80
    ELSE 60

\* matchedProduct ? calculateConfidence(text, matchedProduct) : dflt
confidenceOr(text, matchedProduct, dflt) ==
    IF matchedProduct # None THEN calculateConfidence(text, matchedProduct[1]) ELSE dflt

----------------------------------------------------------------------------
(* build-parser: category detection *)

\* Object.entries(CATEGORY_PATTERNS)[k]: the name and the patterns
CategoryName(k) == CATEGORY_PATTERNS[k][1]

PatternsOf(k) == CATEGORY_PATTERNS[k][2]

\* the index of the first of the patterns, from pattern n on, that matches
\* the lower-cased text, 0 if none
RECURSIVE firstPatternFrom(_, _, _)
firstPatternFrom(patterns, n, textLower) ==
    IF n > Len(patterns) THEN 0
    ELSE IF Test(patterns[n], textLower) THEN n
    ELSE firstPatternFrom(patterns, n + 1, textLower)

firstPattern(k, text) == firstPatternFrom(PatternsOf(k), 1, toLowerCase(text))

\* the index of the first of the entries, from entry k on, with a pattern
\* that matches the lower-cased text, 0 if none
RECURSIVE detectCategoryFrom(_, _, _)
detectCategoryFrom(entries, k, textLower) ==
    IF k > Len(entries) THEN 0
    ELSE IF firstPatternFrom(entries[k][2], 1, textLower) # 0 THEN k
    ELSE detectCategoryFrom(entries, k + 1, textLower)

detectCategory(text) == detectCategoryFrom(CATEGORY_PATTERNS, 1, toLowerCase(text))

\* the component of a detected category: the best match of the category in
\* the catalog and its confidence, or the confidence of an unmatched item
componentOf(category, rawText, matchedProduct, unmatched, sourceURL) ==
    ParsedComponent(category, rawText, matchedProduct,
                    confidenceOr(rawText, matchedProduct, unmatched), None, sourceURL)

parseComponent(text, prods) ==
    LET matched(category) ==
            Some(componentOf(category, text, findBestMatch(text, prods, category),
                             30, None))
        detected(k) == IF k = 0 THEN None ELSE matched(CategoryName(k))
    IN detected(detectCategory(text))

\* every category is visited once, so the test !components.some(...) of the
\* code never fails
RECURSIVE extractLoop(_, _, _, _, _)
extractLoop(entries, text, prods, k, components) ==
    IF k > Len(entries) THEN components
    ELSE LET found(category, match) ==
                 IF \E i \in 1..Len(components) : components[i].category = category
                 THEN components
                 ELSE Append(components,
                             [componentOf(category, text,
                                          findBestMatch(text, prods, category), 30, None)
                                 EXCEPT !.rawText = SubSeq(text, match[1], match[2] - 1)])
             tried(patterns, n) ==
                 IF n = 0 THEN components
                 ELSE found(entries[k][1],
                            FirstMatchFrom(patterns[n], toLowerCase(text), 1)[1])
         IN extractLoop(entries, text, prods, k + 1,
                        tried(entries[k][2],
                              firstPatternFrom(entries[k][2], 1, toLowerCase(text))))

extractComponentsFromText(text, prods) ==
    extractLoop(CATEGORY_PATTERNS, text, prods, 1, <<>>)

----------------------------------------------------------------------------
(* build-parser: prices *)

\* priceStr.replace(/[₹$Rs\.,\s]/gi, "")
cleanPrice(priceStr) ==
    SelectSeq(priceStr,
              LAMBDA c : ~(LowerChar(c) \in {Rupee, "$", "r", "s", ".", ","} \/ IsSpace(c)))

\* parseInt(cleaned, 10) || 0
parsePrice(priceStr) ==
    LET orZero(n) == IF n = NaN THEN 0 ELSE n
    IN orZero(parseInt(cleanPrice(priceStr)))

extractPriceFromText(text) ==
    LET priced(path) == IF path = <<>> THEN 0 ELSE parsePrice(Group(text, path, 3))
    IN priced(FirstPathFrom(PriceParts, toLowerCase(text), 1))

----------------------------------------------------------------------------
(* build-parser: marketplace URLs *)

KwAmazon == <<"a", "m", "a", "z", "o", "n">>

KwFlipkart == <<"f", "l", "i", "p", "k", "a", "r", "t">>

\* the position of the first character of s at or after i that ends a URL
\* component (one of stops), Len(s) + 1 if there is none
StopAt(s, i, stops) ==
    IF \E j \in i..Len(s) : s[j] \in stops
    THEN CHOOSE j \in i..Len(s) : s[j] \in stops /\ \A m \in i..(j - 1) : s[m] \notin stops
    ELSE Len(s) + 1

\* the position after "://"
HostStart(url) == StopAt(url, 1, {":"}) + 3

\* new URL(url).hostname, for a URL without user name and port
hostname(url) ==
    toLowerCase(SubSeq(url, HostStart(url),
                       StopAt(url, HostStart(url), {"/", "?", "#"}) - 1))

\* new URL(url).pathname, for a path without dot segments and escapes
pathname(url) ==
    LET from == StopAt(url, HostStart(url), {"/", "?", "#"})
    IN IF from > Len(url) \/ url[from] # "/" THEN <<"/">>
       ELSE SubSeq(url, from, StopAt(url, from, {"?", "#"}) - 1)

amazonName(pathParts) ==
    LET dp == FirstIn({i \in 1..Len(pathParts) :
                          pathParts[i] = <<"d", "p">> \/ pathParts[i] = <<"g", "p">>})
        namePart == FirstIn({i \in 1..Len(pathParts) :
                                /\ Len(pathParts[i]) > 10
                                /\ ~StartsAt(pathParts[i], 1, <<"B", "0">>)})
    IN IF dp > 1 /\ pathParts[dp - 1] # <<>> THEN DashesToBlanks(pathParts[dp - 1])
       ELSE IF namePart # 0 THEN DashesToBlanks(pathParts[namePart])
       ELSE <<>>

flipkartName(pathParts, productName) ==
    LET namePart == FirstIn({i \in 1..Len(pathParts) :
                                /\ Len(pathParts[i]) > 5
                                /\ ~StartsAt(pathParts[i], 1, <<"p", "/">>)
                                /\ pathParts[i] # <<"p">>})
    IN IF namePart # 0 THEN DashesToBlanks(pathParts[namePart]) ELSE productName

productNameOfURL(url) ==
    LET named(host, pathParts) ==
            LET fromAmazon == IF includes(host, KwAmazon)
                              THEN amazonName(pathParts) ELSE <<>>
            IN IF includes(host, KwFlipkart)
               THEN flipkartName(pathParts, fromAmazon) ELSE fromAmazon
    IN named(hostname(url), SplitExact(pathname(url), "/"))

parseProductURL(url, prods) ==
    LET matched(productName, category) ==
            Some(componentOf(category, productName,
                             findBestMatch(productName, prods, category), 30, Some(url)))
        detected(productName, k) ==
            IF productName = <<>> \/ k = 0 THEN None
            ELSE matched(productName, CategoryName(k))
        named(productName) == detected(productName, detectCategory(productName))
    IN named(productNameOfURL(url))

RECURSIVE urlLoop(_, _, _, _)
urlLoop(urls, prods, i, components) ==
    IF i > Len(urls) THEN components
    ELSE LET pushed(parsed) ==
                 IF parsed # None THEN Append(components, parsed[1]) ELSE components
         IN urlLoop(urls, prods, i + 1, pushed(parseProductURL(urls[i], prods)))

extractComponentsFromURLs(text, prods) ==
    LET urlsAt(found) ==
            [i \in 1..Len(found) |-> SubSeq(text, found[i][1], found[i][2] - 1)]
    IN urlLoop(urlsAt(AllMatchesFrom(UrlPattern, toLowerCase(text), 1)), prods, 1, <<>>)

----------------------------------------------------------------------------
(* build-parser: the table format *)

isPCPartPickerFormat(input) ==
    \/ TestI(TypeItemPattern, input)
    \/ TestI(PcppPattern, input)
    \/ includes(input, <<"|", " ", "h", "t", "t", "p", "s", ":", "/", "/">>)
    \/ TestI(MarkdownPattern, input)

\* a value of the mapping object that is no string: the lower-case names that
\* every object inherits resolve to such a value
NotAString == "not a string"

InheritedNames ==
    { <<"c", "o", "n", "s", "t", "r", "u", "c", "t", "o", "r">>,
      <<"_", "_", "p", "r", "o", "t", "o", "_", "_">> }

CategoryMapping ==
    << <<<<"c", "p", "u">>, "CPU">>,
       <<<<"p", "r", "o", "c", "e", "s", "s", "o", "r">>, "CPU">>,
       <<<<"g", "p", "u">>, "GPU">>,
       <<<<"v", "i", "d", "e", "o", " ", "c", "a", "r", "d">>, "GPU">>,
       <<<<"g", "r", "a", "p", "h", "i", "c", "s", " ", "c", "a", "r", "d">>, "GPU">>,
       <<<<"g", "r", "a", "p", "h", "i", "c", "s">>, "GPU">>,
       <<<<"m", "o", "t", "h", "e", "r", "b", "o", "a", "r", "d">>, "Motherboard">>,
       <<<<"m", "o", "b", "o">>, "Motherboard">>,
       <<<<"m", "e", "m", "o", "r", "y">>, "RAM">>,
       <<<<"r", "a", "m">>, "RAM">>,
       <<<<"s", "t", "o", "r", "a", "g", "e">>, "Storage">>,
       <<<<"s", "s", "d">>, "Storage">>,
       <<<<"h", "d", "d">>, "Storage">>,
       <<<<"p", "o", "w", "e", "r", " ", "s", "u", "p", "p", "l", "y">>, "PSU">>,
       <<<<"p", "s", "u">>, "PSU">>,
       <<<<"c", "a", "s", "e">>, "Case">>,
       <<<<"t", "o", "w", "e", "r">>, "Case">>,
       <<<<"c", "a", "b", "i", "n", "e", "t">>, "Case">>,
       <<<<"c", "h", "a", "s", "s", "i", "s">>, "Case">>,
       <<<<"c", "p", "u", " ", "c", "o", "o", "l", "e", "r">>, "CPU Cooler">>,
       <<<<"c", "o", "o", "l", "e", "r">>, "CPU Cooler">>,
       <<<<"c", "o", "o", "l", "i", "n", "g">>, "CPU Cooler">> >>

mapPCPartPickerCategory(category) ==
    LET categoryLower == trim(toLowerCase(category))
    IN IF \E i \in 1..Len(CategoryMapping) : CategoryMapping[i][1] = categoryLower
       THEN Some(CategoryMapping[CHOOSE i \in 1..Len(CategoryMapping) :
                                    CategoryMapping[i][1] = categoryLower][2])
       ELSE IF categoryLower \in InheritedNames THEN Some(NotAString)
       ELSE None

\* findBestMatch calls category.toLowerCase() for every catalog item, which
\* raises a TypeError when the category is no string
matchRaises(category, prods) == category = NotAString /\ prods # <<>>

TableResult(components, unmatchedText, raised) ==
    [components |-> components, unmatchedText |-> unmatchedText, raised |-> raised]

RECURSIVE tableLoop(_, _, _, _, _)
tableLoop(lines, prods, i, components, unmatchedText) ==
    IF i > Len(lines) THEN TableResult(components, unmatchedText, FALSE)
    ELSE
      LET line == lines[i]
          \* the row of a table: | category | item |
          \* the category group holds no "*", so replace(/\*\*/g, "") leaves it
          tableRow(cleanItem, mappedCategory) ==
              IF mappedCategory = None
              THEN tableLoop(lines, prods, i + 1, components, Append(unmatchedText, line))
              ELSE IF matchRaises(mappedCategory[1], prods)
              THEN TableResult(components, unmatchedText, TRUE)
              ELSE tableLoop(lines, prods, i + 1,
                      Append(components,
                             componentOf(mappedCategory[1], cleanItem,
                                         findBestMatch(cleanItem, prods, mappedCategory[1]),
                                         40, None)),
                      unmatchedText)
          \* the line "category: item"; the confidence is computed from the
          \* item text before trim
          colonRow(itemText, mappedCategory) ==
              IF mappedCategory = None
              THEN tableLoop(lines, prods, i + 1, components, unmatchedText)
              ELSE IF matchRaises(mappedCategory[1], prods)
              THEN TableResult(components, unmatchedText, TRUE)
              ELSE tableLoop(lines, prods, i + 1,
                      Append(components,
                             [componentOf(mappedCategory[1], itemText,
                                          findBestMatch(trim(itemText), prods,
                                                        mappedCategory[1]),
                                          40, None)
                                 EXCEPT !.rawText = trim(itemText)]),
                      unmatchedText)
          rows(tableMatch, colonMatch) ==
              IF tableMatch # <<>>
              THEN tableRow(SelectSeq(trim(Group(line, tableMatch, 10)),
                                      LAMBDA c : c \notin {"[", "]"}),
                            mapPCPartPickerCategory(trim(Group(line, tableMatch, 4))))
              ELSE IF colonMatch # <<>>
              THEN colonRow(Group(line, colonMatch, 5),
                            mapPCPartPickerCategory(trim(Group(line, colonMatch, 2))))
              ELSE tableLoop(lines, prods, i + 1, components, unmatchedText)
      IN
      IF \/ TestI(HeaderPattern, line)
         \/ includes(line, <<"-", "-", "-">>)
         \/ includes(line, <<"=", "=", "=">>)
      THEN tableLoop(lines, prods, i + 1, components, unmatchedText)
      ELSE rows(FirstPathFrom(TableRowParts, line, 1), FirstPathFrom(ColonParts, line, 1))

parsePCPartPickerFormat(input, prods) ==
    tableLoop(SelectSeq(SplitExact(input, "\n"), NonBlank), prods, 1, <<>>, <<>>)

----------------------------------------------------------------------------
(* build-parser: parseBuildList *)

\* the exception that leaves parseBuildList
TypeError == [raised |-> "TypeError"]

\* the loop over the lines; a component of a category that is already
\* matched is dropped
RECURSIVE lineLoop(_, _, _, _, _, _)
lineLoop(lines, prods, i, components, unmatchedText, matchedCategories) ==
    IF i > Len(lines) THEN ParsedBuild(components, unmatchedText)
    ELSE
      LET line == lines[i]
          step(parsed, linePrice) ==
              IF parsed # None /\ parsed[1].category \notin matchedCategories
              THEN lineLoop(lines, prods, i + 1,
                      Append(components,
                             IF parsed[1].matchedProduct = None /\ linePrice > 0
                             THEN [parsed[1] EXCEPT !.extractedPrice = Some(linePrice)]
                             ELSE parsed[1]),
                      unmatchedText,
                      matchedCategories \cup {parsed[1].category})
              ELSE IF parsed = None
              THEN lineLoop(lines, prods, i + 1, components, Append(unmatchedText, line),
                            matchedCategories)
              ELSE lineLoop(lines, prods, i + 1, components, unmatchedText,
                            matchedCategories)
      IN
      IF TestI(UrlLinePattern, trim(line))
      THEN lineLoop(lines, prods, i + 1, components, unmatchedText, matchedCategories)
      ELSE step(parseComponent(line, prods), extractPriceFromText(line))

\* input.split(/[\n,;]+/).map((l) => l.trim()).filter(Boolean)
linesOf(input) ==
    LET trimmed(pieces) == [i \in 1..Len(pieces) |-> trim(pieces[i])]
    IN SelectSeq(trimmed(SplitRuns(input, {"\n", ",", ";"})), NonEmpty)

\* parseBuildList without the early return of the table format
parseBuildListNoTable(input, prods) ==
    LET structured(urlComponents) ==
            lineLoop(linesOf(input), prods, 1, urlComponents, <<>>,
                     {urlComponents[i].category : i \in 1..Len(urlComponents)})
        orFallback(result) ==
            IF Len(result.components) = 0 /\ trim(input) # <<>>
            THEN ParsedBuild(extractComponentsFromText(input, prods), result.unmatchedText)
            ELSE result
    IN orFallback(structured(extractComponentsFromURLs(input, prods)))

\* the inline prices the code collects into extractedPrices are never read
parseBuildList(input, prods) ==
    LET \* the lines that are no URLs, after the components of the URLs
        structured(urlComponents) ==
            lineLoop(linesOf(input), prods, 1, urlComponents, <<>>,
                     {urlComponents[i].category : i \in 1..Len(urlComponents)})
        \* the patterns over the whole input when no line gave a component
        orFallback(result) ==
            IF Len(result.components) = 0 /\ trim(input) # <<>>
            THEN ParsedBuild(extractComponentsFromText(input, prods), result.unmatchedText)
            ELSE result
        \* the table format first, when it is detected
        orTable(isTable, pcppResult) ==
            IF isTable /\ pcppResult.raised THEN TypeError
            ELSE IF isTable /\ Len(pcppResult.components) > 0
            THEN ParsedBuild(pcppResult.components, pcppResult.unmatchedText)
            ELSE orFallback(structured(extractComponentsFromURLs(input, prods)))
    IN orTable(isPCPartPickerFormat(input), parsePCPartPickerFormat(input, prods))

----------------------------------------------------------------------------
(* The ranker's catalogs and requests *)

\* longest list of initial results handed to optimizeResultsForQuery
MaxInitial == 2

\* largest result limit requested
MaxLimit == 10

Limits == {0, 1, 2, 8, MaxLimit}

Q80kGamingPc == <<Rupee, "8", "0", "k", " ", "g", "a", "m", "i", "n", "g", " ", "p", "c">>

Queries ==
    { Q80kGamingPc,
      <<"g", "a", "m", "i", "n", "g", " ", "p", "c">>,
      <<"r", "t", "x", " ", "4", "0", "6", "0">>,
      <<"b", "e", "s", "t", " ", "g", "p", "u">>,
      <<"B", "u", "i", "l", "d", " ", "5", "0", "K">> }

RankItem(id, name, category, price, stock) ==
    Product(id, name, category, <<>>, price, stock, None, NoSpecs)

NameRtx4060 == <<"R", "T", "X", " ", "4", "0", "6", "0">>

gpu1  == RankItem("gpu1", NameRtx4060, "GPU", 30000, Some(TRUE))
gpu1b == RankItem("gpu1b", NameRtx4060, "GPU", 30000, None)
gpu2  == RankItem("gpu2", <<"R", "T", "X", " ", "4", "0", "9", "0">>, "GPU", 150000, Some(TRUE))
gpu3  == RankItem("gpu3", NameRtx4060, "GPU", 26000, Some(FALSE))

cool1 == RankItem("cool1", <<"a", "k", "4", "0", "0">>, "CPU Cooler", 500, None)
cool2 == RankItem("cool2", <<"a", "k", "6", "2", "0">>, "CPU Cooler", 7000, Some(TRUE))
cool3 == RankItem("cool3", <<"n", "h", "-", "u", "1", "2", "s">>, "CPU Cooler", 5000, Some(FALSE))
cool4 == RankItem("cool4", <<"a", "g", "4", "0", "0">>, "CPU Cooler", 3500, Some(TRUE))

GpuShelves ==
    { <<>>, <<gpu1>>, <<gpu2>>, <<gpu2, gpu1>>, <<gpu3, gpu2>>, <<gpu1, gpu1b>> }

CoolerShelves == { <<>>, <<cool1>>, <<cool2>>, <<cool2, cool1>>, <<cool3>>, <<cool1, cool4>> }

RankerCatalog(gpus, coolers) ==
    << RankItem("cpu1", <<"i", "5", " ", "1", "2", "4", "0", "0", "f">>, "CPU", 15000, None) >>
    \o gpus \o
    << RankItem("mb1", <<"b", "6", "5", "0", " ", "b", "o", "a", "r", "d">>, "Motherboard", 12000, Some(TRUE)),
       RankItem("ram1", <<"1", "6", "g", "b", " ", "d", "d", "r", "5">>, "RAM", 5000, Some(TRUE)),
       RankItem("ssd1", <<"1", "t", "b", " ", "n", "v", "m", "e">>, "Storage", 6000, Some(TRUE)),
       RankItem("psu1", <<"5", "5", "0", "w", " ", "p", "s", "u">>, "PSU", 5500, Some(TRUE)),
       RankItem("case1", <<"m", "i", "d", " ", "t", "o", "w", "e", "r">>, "Case", 4000, Some(TRUE)) >>
    \o coolers

RankerCatalogs == {RankerCatalog(g, c) : g \in GpuShelves, c \in CoolerShelves}

SeqsUpTo(S, n) == UNION {[1..k -> S] : k \in 0..n}

NoCall == <<>>

\* the initial results are drawn from the catalog's items of these categories
InitialCategories == {"CPU", "GPU", "CPU Cooler"}

InitialPool(prods) == {p \in Range(prods) : p.category \in InitialCategories}

InitRanker ==
    /\ products \in RankerCatalogs
    /\ embeddingMap = NoEmbeddings
    /\ registry = NoRegistry
    /\ apiKeyCursor = 0
    /\ requests = NoRequests
    /\ op = "optimizeResultsForQuery"
    /\ args \in [query : Queries,
                 initialResults : SeqsUpTo(InitialPool(products), MaxInitial),
                 limit : Limits]
    /\ ret = NoCall
    /\ calls = 0
    /\ first = NoCall

\* one call of optimizeResultsForQuery; the catalog is only read (every sort
\* is applied to a copy made by filter or spread)
OptimizeResultsForQuery ==
    /\ op = "optimizeResultsForQuery"
    /\ calls = 0
    /\ ret' = optimizeResultsForQuery(args.query, args.initialResults, args.limit, products)
    /\ calls' = calls + 1
    /\ first' = ret'
    /\ UNCHANGED <<products, embeddingMap, registry, apiKeyCursor, requests, op, args>>

NextRanker == OptimizeResultsForQuery

SpecRanker == InitRanker /\ [][NextRanker]_vars

----------------------------------------------------------------------------
(* The analyzer's catalog *)

cpuI ==
    Product("cpu-i5", <<"I", "n", "t", "e", "l", " ", "C", "o", "r", "e", " ", "i", "5", "-", "1", "2", "4", "0", "0", "F">>,
            "CPU", <<"I", "n", "t", "e", "l">>, 15000, Some(TRUE), Some("mid-range"),
            [NoSpecs EXCEPT !.socket = Some(<<"L", "G", "A", "1", "7", "0", "0">>), !.tdp = Some(<<"6", "5", "W">>)])

cpuA ==
    Product("cpu-r7", <<"R", "y", "z", "e", "n", " ", "7", " ", "7", "7", "0", "0", "X">>,
            "CPU", <<"A", "M", "D">>, 32000, None, Some("high-end"),
            [NoSpecs EXCEPT !.socket = Some(<<"A", "M", "5">>), !.tdp = Some(<<"1", "0", "5", " ", "W">>)])

cpuN ==
    Product("cpu-x", <<"M", "y", "s", "t", "e", "r", "y", " ", "C", "h", "i", "p">>,
            "CPU", <<"G", "e", "n", "e", "r", "i", "c">>, 8000, Some(TRUE), None,
            NoSpecs)

gpuH ==
    Product("gpu-4070", <<"R", "T", "X", " ", "4", "0", "7", "0">>,
            "GPU", <<"N", "V", "I", "D", "I", "A">>, 55000, Some(TRUE), Some("high-end"),
            [NoSpecs EXCEPT !.tdp = Some(<<"2", "2", "0", "W">>), !.length_mm = Some(300)])

gpuH2 ==
    Product("gpu-7800", <<"R", "X", " ", "7", "8", "0", "0", " ", "X", "T">>,
            "GPU", <<"A", "M", "D">>, 40000, Some(TRUE), Some("high-end"),
            [NoSpecs EXCEPT !.tdp = Some(<<"2", "6", "3", "W">>), !.length_mm = Some(330)])

gpuB ==
    Product("gpu-1650", <<"G", "T", "X", " ", "1", "6", "5", "0">>,
            "GPU", <<"N", "V", "I", "D", "I", "A">>, 14000, Some(TRUE), Some("budget"),
            NoSpecs)

\* priced at exactly three quarters of gpu-4070
gpuQ ==
    Product("gpu-a770", <<"A", "r", "c", " ", "A", "7", "7", "0">>,
            "GPU", <<"I", "n", "t", "e", "l">>, 41250, Some(TRUE), Some("high-end"),
            NoSpecs)

mbA ==
    Product("mb-b650", <<"M", "S", "I", " ", "B", "6", "5", "0", " ", "T", "o", "m", "a", "h", "a", "w", "k">>,
            "Motherboard", <<"M", "S", "I">>, 20000, Some(TRUE), Some("mid-range"),
            [NoSpecs EXCEPT !.socket = Some(<<"A", "M", "5">>), !.chipset = Some(<<"B", "6", "5", "0">>)])

mbI ==
    Product("mb-z790", <<"A", "S", "U", "S", " ", "Z", "7", "9", "0", " ", "D", "D", "R", "4">>,
            "Motherboard", <<"A", "S", "U", "S">>, 25000, Some(TRUE), Some("high-end"),
            [NoSpecs EXCEPT !.socket = Some(<<"L", "G", "A", "1", "7", "0", "0">>), !.chipset = Some(<<"Z", "7", "9", "0">>)])

mbB ==
    Product("mb-b550", <<"G", "i", "g", "a", "b", "y", "t", "e", " ", "B", "5", "5", "0", "M">>,
            "Motherboard", <<"G", "i", "g", "a", "b", "y", "t", "e">>, 9000, Some(TRUE), Some("budget"),
            [NoSpecs EXCEPT !.socket = Some(<<"A", "M", "4">>), !.chipset = Some(<<"A", "M", "D", " ", "B", "5", "5", "0">>)])

mbK ==
    Product("mb-a620", <<"A", "S", "R", "o", "c", "k", " ", "A", "6", "2", "0", " ", "D", "D", "R", "5", " ", "B", "o", "a", "r", "d">>,
            "Motherboard", <<"A", "S", "R", "o", "c", "k">>, 8000, None, Some("budget"),
            [NoSpecs EXCEPT !.socket = Some(<<"A", "M", "5">>), !.type = Some(<<"D", "D", "R", "5">>)])

mbN ==
    Product("mb-x", <<"G", "e", "n", "e", "r", "i", "c", " ", "B", "o", "a", "r", "d">>,
            "Motherboard", <<"G", "e", "n", "e", "r", "i", "c">>, 5000, Some(TRUE), None,
            NoSpecs)

ramK4 ==
    Product("ram-k4", <<"V", "e", "n", "g", "e", "a", "n", "c", "e", " ", "D", "D", "R", "4", " ", "1", "6", "G", "B">>,
            "RAM", <<"C", "o", "r", "s", "a", "i", "r">>, 4000, Some(TRUE), Some("budget"),
            [NoSpecs EXCEPT !.type = Some(<<"D", "D", "R", "4">>), !.speed = Some(<<"3", "2", "0", "0", "M", "H", "z">>)])

ramK5 ==
    Product("ram-k5", <<"T", "r", "i", "d", "e", "n", "t", " ", "Z", "5", " ", "3", "2", "G", "B">>,
            "RAM", <<"G", ".", "S", "k", "i", "l", "l">>, 12000, Some(TRUE), Some("high-end"),
            [NoSpecs EXCEPT !.type = Some(<<"D", "D", "R", "5">>), !.speed = Some(<<"6", "0", "0", "0", "M", "H", "z">>)])

ramS5 ==
    Product("ram-s5", <<"F", "u", "r", "y", " ", "1", "6", "G", "B">>,
            "RAM", <<"K", "i", "n", "g", "s", "t", "o", "n">>, 7000, Some(TRUE), Some("mid-range"),
            [NoSpecs EXCEPT !.speed = Some(<<"4", "8", "0", "0", "M", "H", "z">>)])

ramS4 ==
    Product("ram-s4", <<"V", "a", "l", "u", "e", " ", "1", "6", "G", "B">>,
            "RAM", <<"C", "r", "u", "c", "i", "a", "l">>, 3000, Some(TRUE), Some("budget"),
            [NoSpecs EXCEPT !.speed = Some(<<"4", "7", "9", "9", " ", "M", "H", "z">>)])

ramS4b ==
    Product("ram-s4b", <<"B", "a", "s", "i", "c", "s", " ", "8", "G", "B">>,
            "RAM", <<"C", "r", "u", "c", "i", "a", "l">>, 2000, Some(TRUE), Some("budget"),
            [NoSpecs EXCEPT !.speed = Some(<<"2", "1", "3", "3", "M", "H", "z">>)])

ramSU ==
    Product("ram-su", <<"L", "e", "g", "a", "c", "y", " ", "8", "G", "B">>,
            "RAM", <<"G", "e", "n", "e", "r", "i", "c">>, 1500, Some(TRUE), Some("budget"),
            [NoSpecs EXCEPT !.speed = Some(<<"2", "1", "3", "2", "M", "H", "z">>)])

ramN ==
    Product("ram-x", <<"P", "l", "a", "i", "n", " ", "8", "G", "B">>,
            "RAM", <<"G", "e", "n", "e", "r", "i", "c">>, 1800, None, None,
            NoSpecs)

psu450 ==
    Product("psu-450", <<"C", "V", "4", "5", "0">>,
            "PSU", <<"C", "o", "r", "s", "a", "i", "r">>, 3500, Some(TRUE), Some("budget"),
            [NoSpecs EXCEPT !.wattage = Some(450)])

psu750 ==
    Product("psu-750", <<"R", "M", "7", "5", "0">>,
            "PSU", <<"C", "o", "r", "s", "a", "i", "r">>, 9000, Some(FALSE), Some("mid-range"),
            [NoSpecs EXCEPT !.wattage = Some(750)])

psu550 ==
    Product("psu-550", <<"C", "X", "5", "5", "0">>,
            "PSU", <<"C", "o", "r", "s", "a", "i", "r">>, 5000, Some(TRUE), Some("budget"),
            [NoSpecs EXCEPT !.wattage = Some(550)])

psuN ==
    Product("psu-x", <<"G", "e", "n", "e", "r", "i", "c", " ", "P", "S", "U">>,
            "PSU", <<"G", "e", "n", "e", "r", "i", "c">>, 1500, Some(TRUE), Some("budget"),
            NoSpecs)

caseS ==
    Product("case-s", <<"C", "o", "m", "p", "a", "c", "t", " ", "C", "a", "s", "e">>,
            "Case", <<"N", "Z", "X", "T">>, 5000, Some(TRUE), Some("budget"),
            [NoSpecs EXCEPT !.max_cooler_height_mm = Some(155), !.max_gpu_length_mm = Some(320)])

caseN ==
    Product("case-x", <<"O", "p", "e", "n", " ", "F", "r", "a", "m", "e">>,
            "Case", <<"G", "e", "n", "e", "r", "i", "c">>, 3000, Some(TRUE), Some("budget"),
            NoSpecs)

coolT ==
    Product("cool-t", <<"A", "K", "6", "2", "0">>,
            "CPU Cooler", <<"D", "e", "e", "p", "C", "o", "o", "l">>, 6000, Some(TRUE), Some("mid-range"),
            [NoSpecs EXCEPT !.height_mm = Some(160), !.tdp_rating = Some(<<"2", "6", "0", "W">>)])

coolS ==
    Product("cool-s", <<"H", "y", "p", "e", "r", " ", "2", "1", "2">>,
            "CPU Cooler", <<"C", "o", "o", "l", "e", "r", " ", "M", "a", "s", "t", "e", "r">>, 3000, Some(TRUE), Some("budget"),
            [NoSpecs EXCEPT !.height_mm = Some(150), !.tdp_rating = Some(<<"9", "5", "W">>)])

coolU ==
    Product("cool-u", <<"S", "t", "o", "c", "k", " ", "F", "a", "n">>,
            "CPU Cooler", <<"G", "e", "n", "e", "r", "i", "c">>, 4000, Some(FALSE), Some("budget"),
            NoSpecs)

ssd ==
    Product("ssd-1", <<"S", "N", "7", "7", "0", " ", "1", "T", "B">>,
            "Storage", <<"W", "D">>, 6000, Some(TRUE), Some("mid-range"),
            NoSpecs)

\* the full catalog; the PSUs and the coolers are not in price order
FullCatalog ==
    <<cpuI, cpuA, cpuN, gpuH, gpuH2, gpuB, gpuQ, mbA, mbI, mbB, mbK, mbN,
      ramK4, ramK5, ramS5, ramS4, ramS4b, ramSU, ramN,
      psu450, psu750, psu550, psuN, caseS, caseN, coolT, coolS, coolU, ssd>>

\* a catalog with no PSU above 450 W, no cooler and no second high-end GPU
LeanCatalog ==
    SelectSeq(FullCatalog,
              LAMBDA p : p.id \notin {"psu-750", "psu-550", "cool-t", "cool-s",
                                      "cool-u", "gpu-7800"})

AnalyzerCatalogs == {FullCatalog, LeanCatalog}

----------------------------------------------------------------------------
(* The analyzer's builds and calls *)

\* longest build drawn as a free sequence of components
MaxComponents == 3

\* number of calls of analyzeBuild on one build
MaxCalls == 2

\* a component bound to a catalog item, as the parser returns it for a line
\* that holds the item's name
Resolved(p) == ParsedComponent(p.category, p.name, Some(p), 95, None, None)

\* a component of a detected category that no catalog item matches
Unresolved(category) ==
    ParsedComponent(category, <<"u", "n", "k", "n", "o", "w", "n">>, None, 30, None, None)

BuildOf(components) == ParsedBuild(components, <<>>)

ItemsOf(prods, category) == {p \in Range(prods) : p.category = category}

\* the items of the builds that hold at most one component per category
CoreIds ==
    {"cpu-i5", "cpu-r7", "gpu-4070", "gpu-1650", "mb-b650", "mb-z790",
     "ram-k4", "ram-k5", "psu-450", "psu-750", "case-s", "cool-t", "ssd-1"}

\* no component of the category, or one resolved to a core item
CoreChoices(prods, category) ==
    {<<>>} \cup {<<Resolved(p)>> : p \in {q \in ItemsOf(prods, category) : q.id \in CoreIds}}

GeneralBuilds(prods) ==
    {BuildOf(c \o g \o m \o r \o u \o k \o f \o d) :
        c \in CoreChoices(prods, "CPU"), g \in CoreChoices(prods, "GPU"),
        m \in CoreChoices(prods, "Motherboard"), r \in CoreChoices(prods, "RAM"),
        u \in CoreChoices(prods, "PSU"), k \in CoreChoices(prods, "Case"),
        f \in CoreChoices(prods, "CPU Cooler"), d \in CoreChoices(prods, "Storage")}

\* components of the builds that may repeat a category or hold an
\* unresolved component
ShortPool(prods) ==
    {Resolved(p) : p \in {q \in Range(prods) :
                            q.id \in {"cpu-i5", "cpu-r7", "cpu-x", "mb-b650", "psu-450"}}}
    \cup {Unresolved("CPU")}

ShortBuilds(prods) ==
    {BuildOf(cs) : cs \in SeqsUpTo(ShortPool(prods), MaxComponents) \ {<<>>}}

\* every RAM item with every board, in both orders
RamBoardBuilds(prods) ==
    UNION {{BuildOf(<<Resolved(r), Resolved(m)>>),
            BuildOf(<<Resolved(m), Resolved(r)>>)} :
           r \in ItemsOf(prods, "RAM"), m \in ItemsOf(prods, "Motherboard")}

\* every CPU with every GPU and every PSU
PsuBuilds(prods) ==
    {BuildOf(<<Resolved(c), Resolved(g), Resolved(u)>>) :
        c \in ItemsOf(prods, "CPU"), g \in ItemsOf(prods, "GPU"),
        u \in ItemsOf(prods, "PSU")}

Builds(prods) ==
    GeneralBuilds(prods) \cup ShortBuilds(prods)
    \cup RamBoardBuilds(prods) \cup PsuBuilds(prods)

InitAnalyzer ==
    /\ products \in AnalyzerCatalogs
    /\ embeddingMap = NoEmbeddings
    /\ registry = NoRegistry
    /\ apiKeyCursor = 0
    /\ requests = NoRequests
    /\ op = "analyzeBuild"
    /\ args \in [build : Builds(products)]
    /\ ret = NoCall
    /\ calls = 0
    /\ first = NoCall

\* one call of analyzeBuild on the build, against the catalog that
\* getAllProducts returns; first keeps the result of the first call
AnalyzeBuild ==
    /\ op = "analyzeBuild"
    /\ calls < MaxCalls
    /\ ret' = analyzeBuild(args.build, products)
    /\ products' = productsAfterAnalyzeBuild(args.build, products)
    /\ calls' = calls + 1
    /\ first' = IF calls = 0 THEN ret' ELSE first
    /\ UNCHANGED <<embeddingMap, registry, apiKeyCursor, requests, op, args>>

NextAnalyzer == AnalyzeBuild

SpecAnalyzer == InitAnalyzer /\ [][NextAnalyzer]_vars

----------------------------------------------------------------------------
(* The parser's inputs and calls *)

\* largest number of fragments joined into one input
MaxFragments == 2

\* Type | Item
LineHeader ==
    <<"T", "y", "p", "e", " ", "|", " ", "I", "t", "e", "m">>

\* Type | Item, then | CPU | Ryzen 7 7700X | on the next line
TableRyzen ==
    <<"T", "y", "p", "e", " ", "|", " ", "I", "t", "e", "m", "\n", "|", " ", "C", "P", "U", " ", "|", " ", "R", "y", "z", "e", "n", " ", "7", " ", "7", "7", "0", "0", "X", " ", "|">>

\* | CPU | Ryzen 7 7700X |
RowRyzen ==
    <<"|", " ", "C", "P", "U", " ", "|", " ", "R", "y", "z", "e", "n", " ", "7", " ", "7", "7", "0", "0", "X", " ", "|">>

\* | CPU | Intel Core i5-12400F |
RowIntel ==
    <<"|", " ", "C", "P", "U", " ", "|", " ", "I", "n", "t", "e", "l", " ", "C", "o", "r", "e", " ", "i", "5", "-", "1", "2", "4", "0", "0", "F", " ", "|">>

\* | Video Card | RTX 4070 |
RowVideoCard ==
    <<"|", " ", "V", "i", "d", "e", "o", " ", "C", "a", "r", "d", " ", "|", " ", "R", "T", "X", " ", "4", "0", "7", "0", " ", "|">>

\* | Monitor | Dell 24 |
RowMonitor ==
    <<"|", " ", "M", "o", "n", "i", "t", "o", "r", " ", "|", " ", "D", "e", "l", "l", " ", "2", "4", " ", "|">>

\* | **Memory** | [Trident Z5 32GB](https://pcpartpicker.com/p/x) |
RowMarkdown ==
    <<"|", " ", "*", "*", "M", "e", "m", "o", "r", "y", "*", "*", " ", "|", " ", "[", "T", "r", "i", "d", "e", "n", "t", " ", "Z", "5", " ", "3", "2", "G", "B", "]", "(", "h", "t", "t", "p", "s", ":", "/", "/", "p", "c", "p", "a", "r", "t", "p", "i", "c", "k", "e", "r", ".", "c", "o", "m", "/", "p", "/", "x", ")", " ", "|">>

\* | constructor | x |
RowConstructor ==
    <<"|", " ", "c", "o", "n", "s", "t", "r", "u", "c", "t", "o", "r", " ", "|", " ", "x", " ", "|">>

\* CPU: Ryzen 7 7700X
LineColon ==
    <<"C", "P", "U", ":", " ", "R", "y", "z", "e", "n", " ", "7", " ", "7", "7", "0", "0", "X">>

\* RTX 4070
LineRtx ==
    <<"R", "T", "X", " ", "4", "0", "7", "0">>

\* gtx 1650 super
LineGtx ==
    <<"g", "t", "x", " ", "1", "6", "5", "0", " ", "s", "u", "p", "e", "r">>

\* hello world
LineHello ==
    <<"h", "e", "l", "l", "o", " ", "w", "o", "r", "l", "d">>

\* some gpu Rs. 25,000
LinePriced ==
    <<"s", "o", "m", "e", " ", "g", "p", "u", " ", "R", "s", ".", " ", "2", "5", ",", "0", "0", "0">>

\* RTX 4060, i5-12400F, 16GB DDR5, B650 board
LineScenario ==
    <<"R", "T", "X", " ", "4", "0", "6", "0", ",", " ", "i", "5", "-", "1", "2", "4", "0", "0", "F", ",", " ", "1", "6", "G", "B", " ", "D", "D", "R", "5", ",", " ", "B", "6", "5", "0", " ", "b", "o", "a", "r", "d">>

\* https://www.amazon.in/RTX-4070-Graphics-Card/dp/B0ABCDEF12
UrlAmazon ==
    <<"h", "t", "t", "p", "s", ":", "/", "/", "w", "w", "w", ".", "a", "m", "a", "z", "o", "n", ".", "i", "n", "/", "R", "T", "X", "-", "4", "0", "7", "0", "-", "G", "r", "a", "p", "h", "i", "c", "s", "-", "C", "a", "r", "d", "/", "d", "p", "/", "B", "0", "A", "B", "C", "D", "E", "F", "1", "2">>

\* https://www.flipkart.com/gtx-1650-gpu/p/itm123
UrlFlipkart ==
    <<"h", "t", "t", "p", "s", ":", "/", "/", "w", "w", "w", ".", "f", "l", "i", "p", "k", "a", "r", "t", ".", "c", "o", "m", "/", "g", "t", "x", "-", "1", "6", "5", "0", "-", "g", "p", "u", "/", "p", "/", "i", "t", "m", "1", "2", "3">>

\* https://example.com/a
UrlOther ==
    <<"h", "t", "t", "p", "s", ":", "/", "/", "e", "x", "a", "m", "p", "l", "e", ".", "c", "o", "m", "/", "a">>

\* https://example.com/ssd-cooler SN770 1TB
UrlShop ==
    <<"h", "t", "t", "p", "s", ":", "/", "/", "e", "x", "a", "m", "p", "l", "e", ".", "c", "o", "m", "/", "s", "s", "d", "-", "c", "o", "o", "l", "e", "r", " ", "S", "N", "7", "7", "0", " ", "1", "T", "B">>

\* hard
LineHard ==
    <<"h", "a", "r", "d">>

\* drive
LineDrive ==
    <<"d", "r", "i", "v", "e">>

\* | Motherboard | MSI |
RowBrand ==
    <<"|", " ", "M", "o", "t", "h", "e", "r", "b", "o", "a", "r", "d", " ", "|", " ", "M", "S", "I", " ", "|">>

\* | Case | Lian Li |
RowCase ==
    <<"|", " ", "C", "a", "s", "e", " ", "|", " ", "L", "i", "a", "n", " ", "L", "i", " ", "|">>

\* https://www.flipkart.com/nvme-drive/p/itm9
UrlNvme ==
    <<"h", "t", "t", "p", "s", ":", "/", "/", "w", "w", "w", ".", "f", "l", "i", "p", "k", "a", "r", "t", ".", "c", "o", "m", "/", "n", "v", "m", "e", "-", "d", "r", "i", "v", "e", "/", "p", "/", "i", "t", "m", "9">>

Fragments ==
    {LineHeader, TableRyzen, RowRyzen, RowIntel, RowVideoCard,
     RowMonitor, RowMarkdown, RowConstructor, LineColon,
     LineRtx, LineGtx, LineHello, LinePriced,
     LineScenario, UrlAmazon, UrlFlipkart, UrlOther, UrlShop,
     LineHard, LineDrive, RowBrand, RowCase, UrlNvme}

\* the fragments of a list, one per line
RECURSIVE JoinLines(_)
JoinLines(list) ==
    IF list = <<>> THEN <<>>
    ELSE IF Len(list) = 1 THEN list[1]
    ELSE list[1] \o <<"\n">> \o JoinLines(Tail(list))

Inputs == {JoinLines(list) : list \in SeqsUpTo(Fragments, MaxFragments)}

InitParser ==
    /\ products \in {FullCatalog}
    /\ embeddingMap = NoEmbeddings
    /\ registry = NoRegistry
    /\ apiKeyCursor = 0
    /\ requests = NoRequests
    /\ op = "parseBuildList"
    /\ args \in [input : Inputs]
    /\ ret = NoCall
    /\ calls = 0
    /\ first = NoCall

\* one call of parseBuildList against the catalog that getAllProducts returns
ParseBuildList ==
    /\ op = "parseBuildList"
    /\ calls = 0
    /\ ret' = parseBuildList(args.input, products)
    /\ calls' = calls + 1
    /\ first' = ret'
    /\ UNCHANGED <<products, embeddingMap, registry, apiKeyCursor, requests, op, args>>

NextParser == ParseBuildList

SpecParser == InitParser /\ [][NextParser]_vars

----------------------------------------------------------------------------
(* JavaScript numbers: IEEE 754 binary64 arithmetic, round to nearest even *)

\* A natural number of any size is the sequence of its digits to the base
\* 2^15, least significant first, without leading zeros; zero is <<>>.
Limb == 2 ^ 15

Highest(S) == CHOOSE x \in S : \A y \in S : y <= x

Trim(x) ==
    LET nonzero == {i \in 1..Len(x) : x[i] # 0}
    IN IF nonzero = {} THEN <<>> ELSE SubSeq(x, 1, Highest(nonzero))

\* a natural number below 2^31
BigOf(n) == Trim(<<n % Limb, (n \div Limb) % Limb, n \div (Limb * Limb)>>)

LimbAt(x, i) == IF i >= 1 /\ i <= Len(x) THEN x[i] ELSE 0

\* -1, 0 or 1 as x is below, equal to or above y
BigCmp(x, y) ==
    IF Len(x) # Len(y) THEN (IF Len(x) < Len(y) THEN -1 ELSE 1)
    ELSE LET differ == {i \in 1..Len(x) : x[i] # y[i]}
             top(h) == IF x[h] < y[h] THEN -1 ELSE 1
         IN IF differ = {} THEN 0 ELSE top(Highest(differ))

RECURSIVE AddFrom(_, _, _, _)
AddFrom(x, y, i, carry) ==
    LET digit(t) == <<t % Limb>> \o AddFrom(x, y, i + 1, t \div Limb)
    IN IF i > Len(x) /\ i > Len(y) THEN (IF carry = 0 THEN <<>> ELSE <<carry>>)
       ELSE digit(LimbAt(x, i) + LimbAt(y, i) + carry)

BigAdd(x, y) == AddFrom(x, y, 1, 0)

\* x - y for x >= y
RECURSIVE SubFrom(_, _, _, _)
SubFrom(x, y, i, borrow) ==
    LET digit(t) == IF t < 0 THEN <<t + Limb>> \o SubFrom(x, y, i + 1, 1)
                    ELSE <<t>> \o SubFrom(x, y, i + 1, 0)
    IN IF i > Len(x) THEN <<>>
       ELSE digit(x[i] - LimbAt(y, i) - borrow)

BigSub(x, y) == Trim(SubFrom(x, y, 1, 0))

\* x * k for a digit k
RECURSIVE MulSmallFrom(_, _, _, _)
MulSmallFrom(x, k, i, carry) ==
    LET digit(t) == <<t % Limb>> \o MulSmallFrom(x, k, i + 1, t \div Limb)
    IN IF i > Len(x) THEN (IF carry = 0 THEN <<>> ELSE <<carry>>)
       ELSE digit(x[i] * k + carry)

BigMulSmall(x, k) == IF k = 0 THEN <<>> ELSE MulSmallFrom(x, k, 1, 0)

\* x * (2^15)^n
ShiftLimbs(x, n) == IF x = <<>> THEN <<>> ELSE [i \in 1..n |-> 0] \o x

RECURSIVE MulFrom(_, _, _)
MulFrom(x, y, j) ==
    IF j > Len(y) THEN <<>>
    ELSE BigAdd(ShiftLimbs(BigMulSmall(x, y[j]), j - 1), MulFrom(x, y, j + 1))

BigMul(x, y) == MulFrom(x, y, 1)

\* the number of binary digits
BitLen(x) ==
    IF x = <<>> THEN 0
    ELSE 15 * (Len(x) - 1)
         + (CHOOSE n \in 1..15 : 2 ^ (n - 1) <= x[Len(x)] /\ x[Len(x)] < 2 ^ n)

\* x * 2^n
BigShl(x, n) == ShiftLimbs(BigMulSmall(x, 2 ^ (n % 15)), n \div 15)

\* x \div 2^n
BigShr(x, n) ==
    LET shifted(y, r) ==
            Trim([i \in 1..Len(y) |->
                    (y[i] \div 2 ^ r) + (LimbAt(y, i + 1) % 2 ^ r) * 2 ^ (15 - r)])
    IN IF n \div 15 >= Len(x) THEN <<>>
       ELSE shifted(SubSeq(x, n \div 15 + 1, Len(x)), n % 15)

\* long division by a divisor whose highest digit is at least 2^14: the digit
\* of the quotient is at most two below its estimate from the two highest
\* digits of the remainder
RECURSIVE DivFrom(_, _, _, _, _)
DivFrom(n, d, i, r, q) ==
    LET digitOf(rr, qhat) ==
            CHOOSE g \in Max(0, qhat - 2)..qhat :
                /\ BigCmp(BigMulSmall(d, g), rr) <= 0
                /\ BigCmp(BigMulSmall(d, g + 1), rr) > 0
        next(rr, g) == DivFrom(n, d, i - 1, BigSub(rr, BigMulSmall(d, g)), <<g>> \o q)
        step(rr) ==
            next(rr, digitOf(rr, Min((LimbAt(rr, Len(d) + 1) * Limb + LimbAt(rr, Len(d)))
                                        \div d[Len(d)], Limb - 1)))
    IN IF i = 0 THEN [q |-> Trim(q), r |-> r]
       ELSE step(Trim(<<n[i]>> \o r))

\* n \div d and, up to a power of two, n % d, for d > 0: the digits of the
\* quotient above the first Len(n) - Len(d) + 1 are zero
BigDiv(n, d) ==
    LET from(nn, dd) ==
            IF Len(nn) < Len(dd) THEN [q |-> <<>>, r |-> nn]
            ELSE DivFrom(nn, dd, Len(nn) - Len(dd) + 1,
                         Trim(SubSeq(nn, Len(nn) - Len(dd) + 2, Len(nn))), <<>>)
        normal(s) == from(BigShl(n, s), BigShl(d, s))
    IN normal(15 * Len(d) - BitLen(d))

\* A number is sign * m * 2^e with m of exactly 53 binary digits, or zero.
\* Infinities, NaN and subnormal numbers do not arise from the vectors used.
Zero == [sign |-> 0, m |-> <<>>, e |-> 0]

\* (q + f) * 2^e for a q of at least 55 binary digits and a fraction
\* 0 <= f < 1 that is positive exactly when sticky, rounded to nearest even
RoundBits(sign, q, sticky, e) ==
    LET result(m, drop) ==
            IF BitLen(m) > 53 THEN [sign |-> sign, m |-> BigShr(m, 1), e |-> e + drop + 1]
            ELSE [sign |-> sign, m |-> m, e |-> e + drop]
        rounded(m, drop, c) ==
            IF c > 0 \/ (c = 0 /\ (sticky \/ m[1] % 2 = 1))
            THEN result(BigAdd(m, <<1>>), drop)
            ELSE result(m, drop)
        cut(m, drop) ==
            rounded(m, drop, BigCmp(BigSub(q, BigShl(m, drop)), BigShl(<<1>>, drop - 1)))
        at(drop) == cut(BigShr(q, drop), drop)
    IN at(BitLen(q) - 53)

\* (n / d) * 2^e for naturals n, d > 0
RoundQuotient(sign, n, d, e) ==
    LET rounded(k, qr) == RoundBits(sign, qr.q, qr.r # <<>>, e - k)
        scaled(k) == rounded(k, BigDiv(BigShl(n, k), d))
    IN scaled(56 + BitLen(d) - BitLen(n))

Sign(n) == IF n < 0 THEN -1 ELSE IF n > 0 THEN 1 ELSE 0

\* the Number of an integer below 2^31 in absolute value
NumberOf(n) ==
    IF n = 0 THEN Zero ELSE RoundBits(Sign(n), BigShl(BigOf(Abs(n)), 60), FALSE, -60)

\* the Number a decimal literal n/d denotes
Literal(n, d) == RoundQuotient(1, BigOf(n), BigOf(d), 0)

\* x * y
Times(x, y) ==
    IF x.sign = 0 \/ y.sign = 0 THEN Zero
    ELSE RoundBits(x.sign * y.sign, BigMul(x.m, y.m), FALSE, x.e + y.e)

\* x / y for y # 0
Over(x, y) ==
    IF x.sign = 0 THEN Zero
    ELSE RoundQuotient(x.sign * y.sign, x.m, y.m, x.e - y.e)

\* r is the Number nearest to the square root of the natural number n
IsRootOf(r, n) ==
    LET between(low, high, scaled) ==
            /\ BigCmp(BigMul(low, low), scaled) < 0
            /\ BigCmp(scaled, BigMul(high, high)) < 0
    IN /\ r.sign = 1 /\ BitLen(r.m) = 53 /\ r.e < 0
       /\ between(BigSub(BigShl(r.m, 1), <<1>>), BigAdd(BigShl(r.m, 1), <<1>>),
                  BigShl(BigOf(n), 2 - 2 * r.e))

\* the candidates for the square roots of 1, 2, 3 and 4
RootTable ==
    <<
       [sign |-> 1, m |-> <<0, 0, 0, 128>>, e |-> -52],
       [sign |-> 1, m |-> <<15309, 19710, 633, 181>>, e |-> -52],
       [sign |-> 1, m |-> <<19626, 20656, 23019, 221>>, e |-> -52],
       [sign |-> 1, m |-> <<0, 0, 0, 128>>, e |-> -51] >>

\* the square roots: each candidate is the Number nearest to the root
Roots == [n \in 1..Len(RootTable) |-> CHOOSE r \in {RootTable[n]} : IsRootOf(r, n)]

\* Math.sqrt of a sum of squares: IEEE 754 asks for the nearest Number
MathSqrt(n) == IF n = 0 THEN Zero ELSE Roots[n]

\* -1, 0 or 1 as x < y, x = y or x > y
Compare(x, y) ==
    IF x.sign # y.sign THEN (IF x.sign < y.sign THEN -1 ELSE 1)
    ELSE IF x.sign = 0 THEN 0
    ELSE IF x.e # y.e THEN (IF x.e < y.e THEN 0 - x.sign ELSE x.sign)
    ELSE x.sign * BigCmp(x.m, y.m)

----------------------------------------------------------------------------
(* registry-loader.ts: gaming tiers from the component registries *)

\* a series of a registry: its key and the search terms of its models, in
\* the order in which the loops over brands, series and models meet them
Series(key, terms) == [key |-> key, terms |-> terms]

gpuSeriesTier(seriesKey) ==
    IF includes(seriesKey, <<"r", "t", "x", "_", "5", "0">>) \/ includes(seriesKey, <<"r", "x", "_", "9", "0">>) THEN "enthusiast"
    ELSE IF includes(seriesKey, <<"r", "t", "x", "_", "4", "0">>) \/ includes(seriesKey, <<"r", "x", "_", "7", "0">>) THEN "high"
    ELSE IF includes(seriesKey, <<"r", "t", "x", "_", "3", "0">>) \/ includes(seriesKey, <<"r", "x", "_", "6", "0">>) THEN "mid"
    ELSE IF \/ includes(seriesKey, <<"g", "t", "x">>) \/ includes(seriesKey, <<"r", "x", "_", "5", "5">>)
            \/ includes(seriesKey, <<"a", "r", "c", "_", "a", "3">>) THEN "entry"
    ELSE "mid"

cpuSeriesTier(seriesKey) ==
    IF \/ includes(seriesKey, <<"i", "9">>) \/ includes(seriesKey, <<"r", "y", "z", "e", "n", "_", "9">>)
       \/ includes(seriesKey, <<"t", "h", "r", "e", "a", "d", "r", "i", "p", "p", "e", "r">>) THEN "enthusiast"
    ELSE IF includes(seriesKey, <<"i", "7">>) \/ includes(seriesKey, <<"r", "y", "z", "e", "n", "_", "7">>) THEN "high"
    ELSE IF includes(seriesKey, <<"i", "5">>) \/ includes(seriesKey, <<"r", "y", "z", "e", "n", "_", "5">>) THEN "mid"
    ELSE IF \/ includes(seriesKey, <<"i", "3">>) \/ includes(seriesKey, <<"r", "y", "z", "e", "n", "_", "3">>)
            \/ includes(seriesKey, <<"a", "t", "h", "l", "o", "n">>) THEN "entry"
    ELSE "mid"

\* the first series with a search term that the lowercased name includes;
\* None when the registry could not be loaded or nothing matches
matchFromRegistry(productName, series) ==
    LET nameLower == toLowerCase(productName)
        hit(s) == \E n \in 1..Len(s.terms) : includes(nameLower, toLowerCase(s.terms[n]))
        hits(list) == {k \in 1..Len(list) : hit(list[k])}
        firstOf(list, found) ==
            IF found = {} THEN None
            ELSE Some(list[CHOOSE k \in found : \A j \in found : k <= j])
    IN IF series = None THEN None ELSE firstOf(series[1], hits(series[1]))

matchGPUFromRegistry(productName, reg) ==
    LET tierOf(match) == IF match = None THEN None ELSE Some(gpuSeriesTier(match[1].key))
    IN tierOf(matchFromRegistry(productName, reg.gpus))

matchCPUFromRegistry(productName, reg) ==
    LET tierOf(match) == IF match = None THEN None ELSE Some(cpuSeriesTier(match[1].key))
    IN tierOf(matchFromRegistry(productName, reg.cpus))

gamingTier(match) ==
    IF match = None THEN "unknown"
    ELSE CASE match[1] = "entry" -> "minimum"
           [] match[1] = "mid" -> "good"
           [] match[1] = "high" -> "high"
           [] match[1] = "enthusiast" -> "enthusiast"

getGPUGamingTier(productName, reg) == gamingTier(matchGPUFromRegistry(productName, reg))

getCPUGamingTier(productName, reg) == gamingTier(matchCPUFromRegistry(productName, reg))

isGamingSuitableGPU(productName, highPerformance, reg) ==
    LET suitable(tier) == tier # "unknown" /\ ~(tier = "minimum" /\ highPerformance)
    IN suitable(getGPUGamingTier(productName, reg))

isGamingSuitableCPU(productName, reg) ==
    getCPUGamingTier(productName, reg) \notin {"unknown", "minimum"}

----------------------------------------------------------------------------
(* search.ts: similarity, keyword and vector search *)

HighPerfIndicators ==
    << <<"h", "i", "g", "h", " ", "s", "e", "t", "t", "i", "n", "g", "s">>, <<"u", "l", "t", "r", "a", " ", "s", "e", "t", "t", "i", "n", "g", "s">>, <<"n", "e", "w", "e", "r", " ", "t", "i", "t", "l", "e", "s">>, <<"n", "e", "w", " ", "g", "a", "m", "e", "s">>,
       <<"a", "a", "a", " ", "g", "a", "m", "e", "s">>, <<"c", "y", "b", "e", "r", "p", "u", "n", "k">>, <<"g", "t", "a">>, <<"f", "p", "s">>, <<"1", "4", "4", "0", "p">>, <<"4", "k">>,
       <<"r", "t", "x">>, <<"r", "a", "y", " ", "t", "r", "a", "c", "i", "n", "g">>, <<"c", "o", "m", "p", "e", "t", "i", "t", "i", "v", "e", " ", "g", "a", "m", "i", "n", "g">>, <<"e", "s", "p", "o", "r", "t", "s">> >>

isHighPerformanceGamingQuery(query) == includesAny(toLowerCase(query), HighPerfIndicators)

checkGPUSuitability(product, highPerformance, reg) ==
    product.category # "GPU" \/ isGamingSuitableGPU(product.name, highPerformance, reg)

checkCPUSuitability(product, reg) ==
    product.category # "CPU" \/ isGamingSuitableCPU(product.name, reg)

\* the sum of a[i] * b[i]: sums of products of small integers are exact
RECURSIVE dotFrom(_, _, _)
dotFrom(a, b, i) == IF i > Len(a) THEN 0 ELSE a[i] * b[i] + dotFrom(a, b, i + 1)

\* returns the Number 0 for vectors of different lengths and for a zero vector
cosineSimilarity(a, b) ==
    LET quotient(dotProduct, magnitude) ==
            IF magnitude = Zero THEN Zero ELSE Over(NumberOf(dotProduct), magnitude)
    IN IF Len(a) # Len(b) THEN Zero
       ELSE quotient(dotFrom(a, b, 1),
                     Times(MathSqrt(dotFrom(a, a, 1)), MathSqrt(dotFrom(b, b, 1))))

\* the literals 0.3, 0.7 and 0.1
UnsuitableGpuFactor == Literal(3, 10)

UnsuitableCpuFactor == Literal(7, 10)

ScoreFloor == Literal(1, 10)

\* the weight of a product in a build query, 1 in any other query
suitabilityMultiplier(product, query, reg) ==
    LET forGpu(isHighPerf) ==
            IF ~checkGPUSuitability(product, isHighPerf, reg)
            THEN UnsuitableGpuFactor ELSE NumberOf(1)
        forBoth(multiplier) ==
            IF ~checkCPUSuitability(product, reg)
            THEN Times(multiplier, UnsuitableCpuFactor) ELSE multiplier
    IN IF query # None /\ query[1] # <<>> /\ isBuildQuery(query[1])
       THEN forBoth(forGpu(isHighPerformanceGamingQuery(query[1])))
       ELSE NumberOf(1)

\* filter(s => s.score > 0.1), sort((a, b) => b.score - a.score), slice, map:
\* the sort is stable, scores is the array of the scores map has computed,
\* scores[i] the score of list[i]
rankByScore(list, scores, limit) ==
    LET kept == {i \in 1..Len(list) : Compare(scores[i], ScoreFloor) > 0}
        rank(i) == Cardinality({j \in kept : Compare(scores[j], scores[i]) > 0})
                   + Cardinality({j \in kept : j < i /\ Compare(scores[j], scores[i]) = 0})
                   + 1
        sorted == [r \in 1..Cardinality(kept) |-> list[CHOOSE i \in kept : rank(i) = r]]
    IN slice(sorted, limit)

\* vectorSearch with every suitabilityMultiplier left at 1
vectorSearchUnweighted(queryEmbedding, limit, prods, embeddings) ==
    LET inStock == SelectSeq(prods, InStock)
        score(product) ==
            IF product.id \notin DOMAIN embeddings THEN Zero
            ELSE cosineSimilarity(queryEmbedding, embeddings[product.id])
    IN rankByScore(inStock, <<>> \o [i \in 1..Len(inStock) |-> score(inStock[i])], limit)

\* query is None when the caller passes no query
vectorSearch(queryEmbedding, limit, query, prods, embeddings, reg) ==
    LET inStock == SelectSeq(prods, InStock)
        score(product) ==
            IF product.id \notin DOMAIN embeddings THEN Zero
            ELSE Times(cosineSimilarity(queryEmbedding, embeddings[product.id]),
                       suitabilityMultiplier(product, query, reg))
    IN rankByScore(inStock, <<>> \o [i \in 1..Len(inStock) |-> score(inStock[i])], limit)

\* the text of a category name
categoryText(category) ==
    CASE category = "CPU" -> <<"C", "P", "U">>
      [] category = "GPU" -> <<"G", "P", "U">>
      [] category = "Motherboard" -> <<"M", "o", "t", "h", "e", "r", "b", "o", "a", "r", "d">>
      [] category = "RAM" -> <<"R", "A", "M">>
      [] category = "Storage" -> <<"S", "t", "o", "r", "a", "g", "e">>
      [] category = "PSU" -> <<"P", "S", "U">>
      [] category = "Case" -> <<"C", "a", "s", "e">>
      [] category = "CPU Cooler" -> <<"C", "P", "U", " ", "C", "o", "o", "l", "e", "r">>

\* the build branch of keywordSearch: per category the three in-stock items
\* nearest to the category's share of the budget
RECURSIVE keywordBuildLoop(_, _, _, _)
keywordBuildLoop(budget, prods, c, result) ==
    LET byDistance(category, candidates) ==
            SortByKey(candidates,
                      [i \in 1..Len(candidates) |->
                          TargetDistance100(candidates[i], category, budget)])
        categoryProducts(category) ==
            byDistance(category,
                       SelectSeq(prods, LAMBDA p : p.category = category /\ InStock(p)))
    IN IF c > Len(BUILD_CATEGORIES) THEN result
       ELSE keywordBuildLoop(budget, prods, c + 1,
                result \o slice(categoryProducts(BUILD_CATEGORIES[c]), 3))

\* the number of query terms that the text of the product includes
keywordScore(product, queryTerms) ==
    LET text == toLowerCase(product.name \o <<" ">> \o product.brand \o <<" ">>
                            \o categoryText(product.category) \o <<" ">>
                            \o product.normalized_name)
    IN Cardinality({n \in 1..Len(queryTerms) : includes(text, queryTerms[n])})

keywordSearch(query, limit, prods) ==
    LET queryTerms == SplitRuns(toLowerCase(query), {" ", "\t", "\n"})
        scores == [i \in 1..Len(prods) |-> keywordScore(prods[i], queryTerms)]
        matching == {i \in 1..Len(prods) : scores[i] > 0}
        rank(i) == Cardinality({j \in matching : scores[j] > scores[i]})
                   + Cardinality({j \in matching : j < i /\ scores[j] = scores[i]}) + 1
        sorted == [r \in 1..Cardinality(matching) |->
                      prods[CHOOSE i \in matching : rank(i) = r]]
        search(budget) ==
            IF isBuildQuery(query) /\ budget # NoBudget /\ budget # 0
            THEN slice(keywordBuildLoop(budget, prods, 1, <<>>), limit)
            ELSE slice(sorted, limit)
    IN search(parseBudgetFromQuery(query))

----------------------------------------------------------------------------
(* route.ts: the retrieval step of the chat handler *)

\* the limits the handler passes to vectorSearch and to the two others
VectorLimit == 150

ContextLimit == 80

AllProductsLimit == 100

\* what the handler has after retrieval: the search it logged, its results
\* and the products the context is rendered from
Retrieved(source, searchResults, prods) ==
    [status |-> 200, source |-> source, searchResults |-> searchResults,
     finalContextProducts |->
         IF Len(searchResults) > 0 THEN searchResults ELSE slice(prods, AllProductsLimit)]

\* the handler without the keyword search after an empty vector result
retrieveVectorOnly(userQuery, apiKeys, queryEmbedding, prods, embeddings, reg) ==
    IF apiKeys = 0 THEN [status |-> 500]
    ELSE IF queryEmbedding # None
    THEN Retrieved("vector",
                   optimizeResultsForQuery(userQuery,
                       vectorSearch(queryEmbedding[1], VectorLimit, Some(userQuery),
                                    prods, embeddings, reg),
                       ContextLimit, prods),
                   prods)
    ELSE Retrieved("keyword", keywordSearch(userQuery, ContextLimit, prods), prods)

\* POST up to the rendering of the product context: queryEmbedding is what
\* embedQuery resolved to, None when every provider failed
retrieve(userQuery, apiKeys, queryEmbedding, prods, embeddings, reg) ==
    LET search(viaVector, viaKeyword) ==
            IF queryEmbedding # None /\ Len(viaVector) > 0
            THEN Retrieved("vector", viaVector, prods)
            ELSE Retrieved("keyword", viaKeyword, prods)
    IN IF apiKeys = 0 THEN [status |-> 500]
       ELSE search(optimizeResultsForQuery(userQuery,
                       vectorSearch(queryEmbedding[1], VectorLimit, Some(userQuery),
                                    prods, embeddings, reg),
                       ContextLimit, prods),
                   keywordSearch(userQuery, ContextLimit, prods))

----------------------------------------------------------------------------
(* The search functions' catalog, embeddings, registries and calls *)

\* the dimension of the precomputed embeddings
MaxDim == 3

Components == {-1, 0, 1}

\* the vectors of a length
Vectors(n) == [1..n -> Components]

\* a vector of MaxDim components that starts with the given ones
Embedding(head) == [i \in 1..MaxDim |-> IF i <= Len(head) THEN head[i] ELSE 0]

g40  == RankItem("g40", <<"R", "T", "X", " ", "4", "0", "7", "0">>, "GPU", 55000, Some(TRUE))
g16  == RankItem("g16", <<"G", "T", "X", " ", "1", "6", "5", "0">>, "GPU", 15000, None)
gx   == RankItem("gx", <<"A", "r", "c", " ", "B", "5", "8", "0">>, "GPU", 25000, Some(TRUE))
g90  == RankItem("g90", <<"R", "T", "X", " ", "4", "0", "9", "0">>, "GPU", 150000, Some(FALSE))
c5   == RankItem("c5", <<"i", "5", " ", "1", "2", "4", "0", "0", "f">>, "CPU", 15000, Some(TRUE))
c3   == RankItem("c3", <<"i", "3", " ", "1", "2", "1", "0", "0">>, "CPU", 9000, Some(TRUE))
ram5 == RankItem("ram5", <<"1", "6", "g", "b", " ", "d", "d", "r", "5">>, "RAM", 5000, Some(TRUE))
ssd0 == RankItem("ssd0", <<"1", "t", "b", " ", "n", "v", "m", "e">>, "Storage", 6000, Some(TRUE))
twr  == RankItem("twr", <<"m", "i", "d", " ", "t", "o", "w", "e", "r">>, "Case", 4000, Some(TRUE))

SearchCatalog == <<g40, g16, gx, g90, c5, c3, ram5, ssd0, twr>>

\* a catalog without an item in stock, and one of two items
SearchCatalogs == {SearchCatalog, <<>>, <<g90>>, <<gx, ram5>>}

\* embeddings.json: ssd0 has a zero vector, twr has no entry
SearchEmbeddings ==
    [id \in {"g40", "g16", "gx", "g90", "c5", "c3", "ram5", "ssd0"} |->
        CASE id = "g40" -> Embedding(<<1, 1, 0>>)
          [] id = "g16" -> Embedding(<<1, 0, 0>>)
          [] id = "gx" -> Embedding(<<1, 1, 1>>)
          [] id = "g90" -> Embedding(<<1, 1, 1>>)
          [] id = "c5" -> Embedding(<<0, 1, 1>>)
          [] id = "c3" -> Embedding(<<1, 1, -1>>)
          [] id = "ram5" -> Embedding(<<0, 0, 1>>)
          [] id = "ssd0" -> Embedding(<<>>)]

SampleRegistry ==
    [gpus |-> Some(<< Series(<<"n", "v", "i", "d", "i", "a", "_", "r", "t", "x", "_", "4", "0">>, <<<<"R", "T", "X", " ", "4", "0", "7", "0">>, <<"r", "t", "x", " ", "4", "0", "9", "0">>>>),
                      Series(<<"n", "v", "i", "d", "i", "a", "_", "g", "t", "x", "_", "1", "6">>, <<<<"g", "t", "x", " ", "1", "6", "5", "0">>>>) >>),
     cpus |-> Some(<< Series(<<"i", "n", "t", "e", "l", "_", "c", "o", "r", "e", "_", "i", "5">>, <<<<"i", "5", "-", "1", "2", "4", "0", "0">>, <<"i", "5", " ", "1", "2", "4", "0", "0">>>>),
                      Series(<<"i", "n", "t", "e", "l", "_", "c", "o", "r", "e", "_", "i", "3">>, <<<<"i", "3", " ", "1", "2", "1", "0", "0">>>>) >>)]

Registries == {NoRegistry, SampleRegistry}

QRtxBuild == <<"r", "t", "x", " ", "g", "a", "m", "i", "n", "g", " ", "b", "u", "i", "l", "d">>

QBestGpu == <<"b", "e", "s", "t", " ", "g", "p", "u">>

SearchQueries ==
    { Q80kGamingPc, <<"g", "a", "m", "i", "n", "g", " ", "p", "c">>, QRtxBuild, QBestGpu, <<"d", "d", "r", "5", " ", "r", "a", "m">>, <<>> }

\* the query vectors: of the embeddings' dimension and one shorter
QueryVectors == Vectors(MaxDim) \cup Vectors(MaxDim - 1)

SearchLimits == {2, MaxLimit}

InitVectorSearch ==
    /\ op = "vectorSearch"
    /\ args \in [queryEmbedding : QueryVectors, limit : SearchLimits,
                 query : {None} \cup {Some(q) : q \in SearchQueries}]

InitKeywordSearch ==
    /\ op = "keywordSearch"
    /\ args \in [query : SearchQueries, limit : SearchLimits \cup {0}]

InitRetrieve ==
    /\ op = "POST"
    /\ args \in [userQuery : SearchQueries, apiKeys : {0, 1},
                 queryEmbedding : {None} \cup {Some(v) : v \in QueryVectors}]

InitSearch ==
    /\ products \in SearchCatalogs
    /\ embeddingMap = SearchEmbeddings
    /\ registry \in Registries
    /\ apiKeyCursor = 0
    /\ requests = NoRequests
    /\ InitVectorSearch \/ InitKeywordSearch \/ InitRetrieve
    /\ ret = NoCall
    /\ calls = 0
    /\ first = NoCall

\* one call of vectorSearch: filter and map make the arrays that are sorted
VectorSearch ==
    /\ op = "vectorSearch"
    /\ calls = 0
    /\ ret' = vectorSearch(args.queryEmbedding, args.limit, args.query,
                           products, embeddingMap, registry)
    /\ calls' = calls + 1
    /\ first' = ret'
    /\ UNCHANGED <<products, embeddingMap, registry, apiKeyCursor, requests, op, args>>

\* one call of keywordSearch
KeywordSearch ==
    /\ op = "keywordSearch"
    /\ calls = 0
    /\ ret' = keywordSearch(args.query, args.limit, products)
    /\ calls' = calls + 1
    /\ first' = ret'
    /\ UNCHANGED <<products, embeddingMap, registry, apiKeyCursor, requests, op, args>>

\* one request to the chat handler, up to the rendering of the product context
Retrieve ==
    /\ op = "POST"
    /\ calls = 0
    /\ ret' = retrieve(args.userQuery, args.apiKeys, args.queryEmbedding,
                       products, embeddingMap, registry)
    /\ calls' = calls + 1
    /\ first' = ret'
    /\ UNCHANGED <<products, embeddingMap, registry, apiKeyCursor, requests, op, args>>

NextSearch == VectorSearch \/ KeywordSearch \/ Retrieve

SpecSearch == InitSearch /\ [][NextSearch]_vars

\* the arguments of cosineSimilarity: vectors of up to MaxDim components
CosineVectors == UNION {Vectors(n) : n \in 0..MaxDim}

InitCosine ==
    /\ products = <<>>
    /\ embeddingMap = NoEmbeddings
    /\ registry = NoRegistry
    /\ apiKeyCursor = 0
    /\ requests = NoRequests
    /\ op = "cosineSimilarity"
    /\ args \in [a : CosineVectors, b : CosineVectors]
    /\ ret = NoCall
    /\ calls = 0
    /\ first = NoCall

\* one call of cosineSimilarity
CosineSimilarity ==
    /\ op = "cosineSimilarity"
    /\ calls = 0
    /\ ret' = cosineSimilarity(args.a, args.b)
    /\ calls' = calls + 1
    /\ first' = ret'
    /\ UNCHANGED <<products, embeddingMap, registry, apiKeyCursor, requests, op, args>>

NextCosine == CosineSimilarity

SpecCosine == InitCosine /\ [][NextCosine]_vars


----------------------------------------------------------------------------
(* roast-suggestions.ts *)

Suggestion(issueType, priority, suggestedProduct, savingsAmount, action, reason, note) ==
    [issueType |-> issueType, priority |-> priority, suggestedProduct |-> suggestedProduct,
     savingsAmount |-> savingsAmount, action |-> action, reason |-> reason,
     detailedExplanation |-> note]

\* a warning mapped to medium
mapSeverityToPriorityMedium(severity) ==
    CASE severity = "critical" -> "critical"
      [] severity = "warning" -> "medium"
      [] severity = "info" -> "low"
      [] OTHER -> "medium"

mapSeverityToPriority(severity) ==
    CASE severity = "critical" -> "critical"
      [] severity = "warning" -> "high"
      [] severity = "info" -> "low"
      [] OTHER -> "medium"

\* issue.description.toLowerCase().includes("gpu"): the text of the GPU
\* bottleneck names the GPU, that of the CPU bottleneck only product names
isGpuBottleneck(issue) ==
    \/ issue.title = "GPU Bottleneck Detected"
    \/ \E i \in 1..Len(issue.params) :
           includes(toLowerCase(issue.params[i]), <<"g", "p", "u">>)

\* the explanation is the issue's description followed by a sentence
createSuggestionFromIssue(issue) ==
    LET priority == mapSeverityToPriority(issue.severity)
        explained(sentence) == <<issue.params, sentence>>
    IN CASE issue.type \in {"compatibility", "chipset_mismatch", "ram_compatibility"} ->
              Suggestion(issue.type, "critical", issue.alternativeProduct, None, "replace",
                         issue.title, explained("suggestion"))
         [] issue.type = "psu_warning" ->
              Suggestion(issue.type, "critical", issue.alternativeProduct, None, "upgrade",
                         issue.title, explained("underpowered"))
         [] issue.type = "bottleneck" ->
              Suggestion(issue.type, "high", issue.alternativeProduct, None, "upgrade",
                         issue.title,
                         explained(IF isGpuBottleneck(issue) THEN "CPU" ELSE "GPU"))
         [] issue.type = "cooling_inadequate" ->
              Suggestion(issue.type, "high", issue.alternativeProduct, None, "add",
                         issue.title, explained("throttling"))
         [] issue.type = "overspending" ->
              Suggestion(issue.type, "low", issue.alternativeProduct, issue.savingsAmount,
                         "replace", issue.title, explained("save"))
         [] issue.type = "missing" ->
              Suggestion(issue.type, "medium", None, None, "add",
                         issue.title, explained("essential"))
         [] OTHER ->
              Suggestion(issue.type, priority, None, None, "replace",
                         issue.title, explained(""))

\* low before medium
priorityOrderLowFirst(priority) ==
    CASE priority = "critical" -> 0
      [] priority = "high" -> 1
      [] priority = "medium" -> 3
      [] priority = "low" -> 2

priorityOrder(priority) ==
    CASE priority = "critical" -> 0
      [] priority = "high" -> 1
      [] priority = "medium" -> 2
      [] priority = "low" -> 3

\* the thresholds taken as strict
calculateGradeStrict(score) ==
    IF score > 95 THEN "S"
    ELSE IF score > 85 THEN "A"
    ELSE IF score > 70 THEN "B"
    ELSE IF score > 55 THEN "C"
    ELSE IF score > 40 THEN "D"
    ELSE "F"

calculateGrade(score) ==
    IF score >= 95 THEN "S"
    ELSE IF score >= 85 THEN "A"
    ELSE IF score >= 70 THEN "B"
    ELSE IF score >= 55 THEN "C"
    ELSE IF score >= 40 THEN "D"
    ELSE "F"

\* the lines of the summary, each the values its template prints
generateBuildSummary(analysis, parsedBuild, suggestions) ==
    LET grade == calculateGrade(analysis.overallScore)
        criticalCount == Len(SelectSeq(suggestions, LAMBDA s : s.priority = "critical"))
        highCount == Len(SelectSeq(suggestions, LAMBDA s : s.priority = "high"))
        matchedCount == Len(SelectSeq(parsedBuild.components,
                                      LAMBDA c : c.matchedProduct # None))
    IN << <<"Build Grade", grade, analysis.overallScore>>,
          <<"Detected", Len(parsedBuild.components), matchedCount>> >>
       \o (IF criticalCount > 0 THEN << <<"critical", criticalCount>> >> ELSE <<>>)
       \o (IF highCount > 0 THEN << <<"high-priority", highCount>> >> ELSE <<>>)
       \o (IF analysis.totalPrice > 0
           THEN << <<"Total Build Cost", analysis.totalPrice>> >> ELSE <<>>)
       \o (IF Len(analysis.missingCategories) > 0
           THEN << <<"Missing", analysis.missingCategories>> >> ELSE <<>>)

RECURSIVE savingsLoop(_, _, _)

\* totalPotentialSavings += suggestion.savingsAmount for each truthy amount
savingsLoop(suggestions, i, total) ==
    IF i > Len(suggestions) THEN total
    ELSE savingsLoop(suggestions, i + 1,
                     IF suggestions[i].savingsAmount # None /\ suggestions[i].savingsAmount[1] # 0
                     THEN total + suggestions[i].savingsAmount[1] ELSE total)

generateRoastSuggestions(analysis, parsedBuild) ==
    LET made == [i \in 1..Len(analysis.issues) |-> createSuggestionFromIssue(analysis.issues[i])]
        suggestions == SortByKey(made, [i \in 1..Len(made) |-> priorityOrder(made[i].priority)])
    IN [score |-> analysis.overallScore,
        grade |-> calculateGrade(analysis.overallScore),
        suggestions |-> suggestions,
        totalPotentialSavings |-> savingsLoop(made, 1, 0),
        topPriorityFixes |-> slice(SelectSeq(suggestions,
                                     LAMBDA s : s.priority \in {"critical", "high"}), 3),
        buildSummary |-> generateBuildSummary(analysis, parsedBuild, suggestions)]

\* tierOrder[tier] ?? 1
tierOrder(tier) ==
    IF tier = None THEN 1
    ELSE CASE tier[1] = "budget" -> 0
           [] tier[1] = "mid-range" -> 1
           [] tier[1] = "high-end" -> 2
           [] OTHER -> 1

\* Math.abs(p.price - product.price) / product.price <= 0.2; a division by 0
\* gives Infinity or NaN, which are not <= 0.2
priceDiffWithinFifth(p, product) ==
    /\ product.price # 0
    /\ Compare(Over(NumberOf(Abs(p.price - product.price)), NumberOf(product.price)),
               Literal(2, 10)) <= 0

findAlternatives(product, criteria, maxResults, allProducts) ==
    LET sameCategory == SelectSeq(allProducts,
                            LAMBDA p : /\ p.category = product.category
                                       /\ p.id # product.id
                                       /\ InStock(p))
    IN CASE criteria = "cheaper" ->
              slice(sortByPrice(SelectSeq(sameCategory,
                        LAMBDA p : /\ p.price < product.price
                                   /\ p.performance_tier = product.performance_tier)),
                    maxResults)
         [] criteria = "better" ->
              slice(sortByPrice(SelectSeq(sameCategory,
                        LAMBDA p : tierOrder(p.performance_tier)
                                   > tierOrder(product.performance_tier))),
                    maxResults)
         [] criteria = "similar" ->
              slice(SelectSeq(sameCategory,
                        LAMBDA p : /\ priceDiffWithinFifth(p, product)
                                   /\ p.performance_tier = product.performance_tier),
                    maxResults)
         [] OTHER -> <<>>

----------------------------------------------------------------------------
(* The roast of an analysis *)

\* overallScore is documented as 0-100
MaxScore == 100

IssueSocket ==
    Issue("compatibility", "critical", "Socket Mismatch", <<cpuI.name, mbA.name>>, None, None)

IssuePsu ==
    Issue("psu_warning", "critical", "Insufficient PSU Wattage", <<psu450.name>>,
          Some(psu550), None)

IssueRam ==
    Issue("ram_compatibility", "critical", "RAM Type Mismatch", <<ramK4.name, mbA.name>>,
          None, None)

IssuePlatform ==
    Issue("chipset_mismatch", "critical", "Platform Mismatch", <<cpuI.name, mbA.name>>,
          None, None)

IssueCpuBottleneck ==
    Issue("bottleneck", "warning", "CPU Bottleneck Detected", <<cpuI.name, gpuH.name>>,
          None, None)

IssueGpuBottleneck ==
    Issue("bottleneck", "info", "GPU Bottleneck Detected", <<gpuB.name, cpuI.name>>,
          None, None)

IssueCooling ==
    Issue("cooling_inadequate", "warning", "Cooling May Be Insufficient", <<cpuA.name>>,
          Some(coolT), None)

IssueOverspending ==
    Issue("overspending", "info", "Overspending", <<"RAM", ramK5.name, ramK5.price, ramS5.name>>,
          Some(ramS5), Some(ramK5.price - ramS5.price))

IssueMissing ==
    Issue("missing", "info", "Incomplete Build", <<"PSU", "Storage">>, None, None)

IssueStorage ==
    Issue("storage_slots", "warning", "Not Enough M.2 Slots", <<ssd.name>>, None, None)

RoastIssueLists ==
    { <<>>,
      <<IssueMissing, IssueOverspending, IssueGpuBottleneck, IssueCpuBottleneck,
        IssueCooling, IssuePsu, IssueStorage>>,
      <<IssueOverspending, IssueSocket, IssueRam, IssuePlatform, IssuePsu>> }

\* issues of a type that analyzeBuild does not emit
IssueStorageInfo == [IssueStorage EXCEPT !.severity = "info"]

IssueStorageCritical == [IssueStorage EXCEPT !.severity = "critical"]

\* longest list of issues drawn as a free sequence
MaxIssues == 4

\* one issue for every pair of type and severity that analyzeBuild emits, and
\* the type it does not emit with every severity
IssuePool ==
    {IssueSocket, IssuePsu, IssueCpuBottleneck, IssueGpuBottleneck, IssueCooling,
     IssueOverspending, IssueMissing, IssueStorage, IssueStorageInfo,
     IssueStorageCritical}

AnalysisOf(issues, totalPrice, score) ==
    [issues |-> issues, totalPrice |-> totalPrice,
     missingCategories |-> IF IssueMissing \in Range(issues) THEN IssueMissing.params ELSE <<>>,
     overallScore |-> score]

\* every score with three lists of issues, and every list of up to MaxIssues
\* issues with one score
RoastAnalyses ==
    { AnalysisOf(issues, totalPrice, score) :
        issues \in RoastIssueLists, totalPrice \in {0, 60000}, score \in 0..MaxScore }
    \cup { AnalysisOf(issues, 60000, 50) : issues \in SeqsUpTo(IssuePool, MaxIssues) }

RoastBuilds == { BuildOf(<<Resolved(cpuI), Unresolved("GPU")>>) }

InitRoast ==
    /\ products = FullCatalog
    /\ embeddingMap = NoEmbeddings
    /\ registry = NoRegistry
    /\ apiKeyCursor = 0
    /\ requests = NoRequests
    /\ op = "generateRoastSuggestions"
    /\ args \in [analysis : RoastAnalyses, parsedBuild : RoastBuilds]
    /\ ret = NoCall
    /\ calls = 0
    /\ first = NoCall

\* one call of generateRoastSuggestions; it sorts the array it has built
GenerateRoastSuggestions ==
    /\ op = "generateRoastSuggestions"
    /\ calls = 0
    /\ ret' = generateRoastSuggestions(args.analysis, args.parsedBuild)
    /\ calls' = calls + 1
    /\ first' = ret'
    /\ UNCHANGED <<products, embeddingMap, registry, apiKeyCursor, requests, op, args>>

NextRoast == GenerateRoastSuggestions

SpecRoast == InitRoast /\ [][NextRoast]_vars


----------------------------------------------------------------------------
(* The shared catalog under sequences of calls of the core operations *)

\* what the operations leave in the array that getAllProducts returns.
\* search.ts: keywordSearch, vectorSearch and optimizeResultsForQuery sort the
\* arrays that filter, map and spread have made
productsSortedBySearch(prods) == sortByPrice(prods)

productsAfterSearch(prods) == prods

\* build-parser.ts: findBestMatch filters the catalog and sorts nothing
productsAfterParse(prods) == prods

\* roast-suggestions.ts: generateRoastSuggestions sorts its suggestions,
\* findAlternatives the array that filter has made
productsAfterRoast(prods) == prods

SessionEmbeddings ==
    [id \in {"gpu-4070", "gpu-7800", "cpu-i5", "ram-k5"} |->
        CASE id = "gpu-4070" -> Embedding(<<1, 1, 0>>)
          [] id = "gpu-7800" -> Embedding(<<1, 0, 0>>)
          [] id = "cpu-i5" -> Embedding(<<0, 1, 1>>)
          [] id = "ram-k5" -> Embedding(<<0, 0, 1>>)]

SessionQueries == {Q80kGamingPc, QBestGpu}

SessionVectors == {Embedding(<<1, 1, 0>>), Embedding(<<0, 1, 1>>)}

SessionBuilds ==
    { BuildOf(<<Resolved(cpuI), Resolved(gpuH), Resolved(psu450)>>),
      BuildOf(<<Resolved(ramK5), Resolved(cpuA), Unresolved("GPU")>>) }

SessionInputs == {LineRtx, TableRyzen}

InitSession ==
    /\ products = FullCatalog
    /\ embeddingMap = SessionEmbeddings
    /\ registry = SampleRegistry
    /\ apiKeyCursor = 0
    /\ requests = NoRequests
    /\ op = "none"
    /\ args = <<>>
    /\ ret = NoCall
    /\ calls = 0
    /\ first = NoCall

\* a call of an operation with its arguments, its result and the catalog it leaves
SessionCall(name, arguments, result, after) ==
    /\ calls < MaxCalls
    /\ op' = name
    /\ args' = arguments
    /\ ret' = result
    /\ products' = after
    /\ calls' = calls + 1
    /\ first' = IF calls = 0 THEN ret' ELSE first
    /\ UNCHANGED <<embeddingMap, registry, apiKeyCursor, requests>>

CallKeywordSearch ==
    \E query \in SessionQueries, limit \in {2, MaxLimit} :
        SessionCall("keywordSearch", [query |-> query, limit |-> limit],
                    keywordSearch(query, limit, products),
                    productsAfterSearch(products))

CallVectorSearch ==
    \E queryEmbedding \in SessionVectors, query \in SessionQueries :
        SessionCall("vectorSearch",
                    [queryEmbedding |-> queryEmbedding, limit |-> MaxLimit, query |-> Some(query)],
                    vectorSearch(queryEmbedding, MaxLimit, Some(query),
                                 products, embeddingMap, registry),
                    productsAfterSearch(products))

CallOptimizeResultsForQuery ==
    \E query \in SessionQueries, initialResults \in {<<>>, <<gpuH, gpuH2>>} :
        SessionCall("optimizeResultsForQuery",
                    [query |-> query, initialResults |-> initialResults, limit |-> MaxLimit],
                    optimizeResultsForQuery(query, initialResults, MaxLimit, products),
                    productsAfterSearch(products))

CallParseBuildList ==
    \E input \in SessionInputs :
        SessionCall("parseBuildList", [input |-> input],
                    parseBuildList(input, products),
                    productsAfterParse(products))

CallAnalyzeBuild ==
    \E build \in SessionBuilds :
        SessionCall("analyzeBuild", [build |-> build],
                    analyzeBuild(build, products),
                    productsAfterAnalyzeBuild(build, products))

CallGenerateRoastSuggestions ==
    \E build \in SessionBuilds :
        SessionCall("generateRoastSuggestions", [parsedBuild |-> build],
                    generateRoastSuggestions(analyzeBuild(build, products), build),
                    productsAfterRoast(productsAfterAnalyzeBuild(build, products)))

CallFindAlternatives ==
    \E product \in {ramK4, gpuH}, criteria \in {"cheaper", "better", "similar"} :
        SessionCall("findAlternatives",
                    [product |-> product, criteria |-> criteria, maxResults |-> 3],
                    findAlternatives(product, criteria, 3, products),
                    productsAfterRoast(products))

NextSession ==
    \/ CallKeywordSearch
    \/ CallVectorSearch
    \/ CallOptimizeResultsForQuery
    \/ CallParseBuildList
    \/ CallAnalyzeBuild
    \/ CallGenerateRoastSuggestions
    \/ CallFindAlternatives

SpecSession == InitSession /\ [][NextSession]_vars


----------------------------------------------------------------------------
(* search.ts: calls of parseBudgetFromQuery *)

\* longest query, in characters
MaxQueryLen == 5

\* digits, the thousands separator, the suffix in both cases, a blank, a
\* currency marker and a letter
QueryChars == {"1", "0", ",", "k", "K", " ", Rupee, "g"}

BudgetQueries == SeqsUpTo(QueryChars, MaxQueryLen)

InitBudget ==
    /\ products = <<>>
    /\ embeddingMap = NoEmbeddings
    /\ registry = NoRegistry
    /\ apiKeyCursor = 0
    /\ requests = NoRequests
    /\ op = "parseBudgetFromQuery"
    /\ args \in [query : BudgetQueries]
    /\ ret = NoCall
    /\ calls = 0
    /\ first = NoCall

\* one call of parseBudgetFromQuery
ParseBudgetFromQuery ==
    /\ op = "parseBudgetFromQuery"
    /\ calls = 0
    /\ ret' = parseBudgetFromQuery(args.query)
    /\ calls' = calls + 1
    /\ first' = ret'
    /\ UNCHANGED <<products, embeddingMap, registry, apiKeyCursor, requests, op, args>>

NextBudget == ParseBudgetFromQuery

SpecBudget == InitBudget /\ [][NextBudget]_vars


----------------------------------------------------------------------------
(* search.ts: calls of dedupeProducts *)

\* longest list passed to dedupeProducts
MaxList == 4

\* an item of the lists: normalized_name is "" where the data gives none
ListItem(id, name, normalized, category, price) ==
    [RankItem(id, name, category, price, None) EXCEPT !.normalized_name = normalized]

\* items that share a key through the case of the name, through
\* normalized_name or outright, and items that differ in one part of the key
DedupePool ==
    {ListItem("d1", <<"a">>, <<"a">>, "GPU", 1),
     ListItem("d2", <<"a">>, <<"a">>, "GPU", 1),
     ListItem("d3", <<"A">>, <<>>, "GPU", 1),
     ListItem("d4", <<"b">>, <<"a">>, "GPU", 1),
     ListItem("d5", <<"a">>, <<"a">>, "CPU", 1),
     ListItem("d6", <<"a">>, <<"a">>, "GPU", 11),
     ListItem("d7", <<"a", "|", "1">>, <<"a", "|", "1">>, "GPU", 1),
     ListItem("d8", <<"a">>, <<"a", "|", "1">>, "GPU", 11)}

InitDedupe ==
    /\ products = <<>>
    /\ embeddingMap = NoEmbeddings
    /\ registry = NoRegistry
    /\ apiKeyCursor = 0
    /\ requests = NoRequests
    /\ op = "dedupeProducts"
    /\ args \in [list : SeqsUpTo(DedupePool, MaxList)]
    /\ ret = NoCall
    /\ calls = 0
    /\ first = NoCall

\* dedupeProducts applied to the list
DedupeProducts ==
    /\ op = "dedupeProducts"
    /\ calls = 0
    /\ ret' = dedupeProducts(args.list)
    /\ calls' = 1
    /\ first' = ret'
    /\ UNCHANGED <<products, embeddingMap, registry, apiKeyCursor, requests, op, args>>

\* dedupeProducts applied to its own result
DedupeAgain ==
    /\ op = "dedupeProducts"
    /\ calls = 1
    /\ ret' = dedupeProducts(ret)
    /\ calls' = 2
    /\ UNCHANGED <<products, embeddingMap, registry, apiKeyCursor, requests, op, args, first>>

NextDedupe == DedupeProducts \/ DedupeAgain

SpecDedupe == InitDedupe /\ [][NextDedupe]_vars


----------------------------------------------------------------------------
(* route.ts: the pool of API keys and the model call *)

\* Array.from(new Set(all)): the first occurrence of every element
RECURSIVE uniqueLoop(_, _, _)
uniqueLoop(all, i, kept) ==
    IF i > Len(all) THEN kept
    ELSE uniqueLoop(all, i + 1,
                    IF all[i] \in Range(kept) THEN kept ELSE Append(kept, all[i]))

\* the keys of GOOGLE_GENERATIVE_AI_API_KEYS followed by the one of
\* GOOGLE_GENERATIVE_AI_API_KEY; an unset variable reads as ""
getApiKeys(env) ==
    LET pieces == SplitExact(env.keys, ",")
        keysFromList == SelectSeq([i \in 1..Len(pieces) |-> trim(pieces[i])], NonEmpty)
        singleKey == trim(env.key)
    IN uniqueLoop(keysFromList \o (IF singleKey # <<>> THEN <<singleKey>> ELSE <<>>),
                  1, <<>>)

\* the cursor is advanced twice
getOrderedApiKeysTwice(keys, cursor) ==
    IF Len(keys) <= 1 THEN [keys |-> keys, apiKeyCursor |-> cursor]
    ELSE [keys |-> SubSeq(keys, (cursor % Len(keys)) + 1, Len(keys))
                       \o SubSeq(keys, 1, cursor % Len(keys)),
          apiKeyCursor |-> cursor + 2]

\* the keys from the cursor on, followed by those before it, and the cursor
\* after the call
getOrderedApiKeys(keys, cursor) ==
    IF Len(keys) <= 1 THEN [keys |-> keys, apiKeyCursor |-> cursor]
    ELSE [keys |-> SubSeq(keys, (cursor % Len(keys)) + 1, Len(keys))
                       \o SubSeq(keys, 1, cursor % Len(keys)),
          apiKeyCursor |-> cursor + 1]

\* an error object: its message, its statusCode and the status of its response
ApiError(message, statusCode, responseStatus) ==
    [message |-> message, statusCode |-> statusCode, responseStatus |-> responseStatus]

getErrorStatusCode(error) ==
    IF error.statusCode # None THEN error.statusCode
    ELSE error.responseStatus

ApiErrorInfo(kind, statusCode, retryable) ==
    [kind |-> kind, statusCode |-> statusCode, retryable |-> retryable]

classifyApiError(error) ==
    LET lowerMessage == toLowerCase(error.message)
        statusCode == getErrorStatusCode(error)
        says(words) == includesAny(lowerMessage, words)
    IN IF says(<<<<"r", "e", "s", "o", "u", "r", "c", "e", "_", "e", "x", "h", "a", "u", "s", "t", "e", "d">>, <<"q", "u", "o", "t", "a">>, <<"q", "u", "o", "t", "a", " ", "e", "x", "c", "e", "e", "d", "e", "d">>>>)
       THEN ApiErrorInfo("quota_exhausted", 429, TRUE)
       ELSE IF statusCode = Some(429) \/ says(<<<<"r", "a", "t", "e", " ", "l", "i", "m", "i", "t">>, <<"t", "o", "o", " ", "m", "a", "n", "y", " ", "r", "e", "q", "u", "e", "s", "t", "s">>>>)
       THEN ApiErrorInfo("rate_limited", 429, TRUE)
       ELSE IF \/ statusCode \in {Some(401), Some(403)}
               \/ says(<<<<"a", "p", "i", " ", "k", "e", "y">>, <<"p", "e", "r", "m", "i", "s", "s", "i", "o", "n", " ", "d", "e", "n", "i", "e", "d">>, <<"u", "n", "a", "u", "t", "h", "o", "r", "i", "z", "e", "d">>>>)
       THEN ApiErrorInfo("auth_error", 500, FALSE)
       ELSE IF says(<<<<"n", "o", "t", " ", "f", "o", "u", "n", "d">>, <<"n", "o", "t", " ", "s", "u", "p", "p", "o", "r", "t", "e", "d", " ", "f", "o", "r">>, <<"m", "o", "d", "e", "l">>>>)
       THEN ApiErrorInfo("model_error", 500, FALSE)
       ELSE IF says(<<<<"n", "e", "t", "w", "o", "r", "k">>, <<"f", "e", "t", "c", "h">>>>) \/ statusCode \in {Some(503), Some(504)}
       THEN ApiErrorInfo("network_error", 503, TRUE)
       ELSE ApiErrorInfo("unknown", 500, FALSE)

\* the loop goes on after every failure marked retryable
triesNextKeyIfRetryable(info, hasNextKey) == info.retryable /\ hasNextKey

\* the negation of the break condition of the loop over the keys
triesNextKey(info, hasNextKey) ==
    info.kind \in {"quota_exhausted", "rate_limited"} /\ hasNextKey

\* the status of the response that the outer catch returns
failureStatus(error) ==
    LET answered(info) ==
            IF info.kind \in {"quota_exhausted", "rate_limited"} THEN 429
            ELSE IF info.kind = "auth_error" THEN 500
            ELSE info.statusCode
    IN answered(classifyApiError(error))

\* a chat request: the position of its handler, the key list it took, the
\* index of the loop, the last error caught, the status of its response and
\* the number of the getOrderedApiKeys call it made
ChatRequest(pc, orderedApiKeys, keyIndex, lastError, status, turn) ==
    [pc |-> pc, orderedApiKeys |-> orderedApiKeys, keyIndex |-> keyIndex,
     lastError |-> lastError, status |-> status, turn |-> turn]

\* a request whose body has not been read yet
NewRequest == ChatRequest("new", <<>>, 0, None, None, 0)

----------------------------------------------------------------------------
(* The chat handler's requests *)

\* number of concurrent chat requests
MaxRequests == 3

RequestIds == 1..MaxRequests

\* the two environment variables: blanks around keys, empty entries, a key
\* listed twice, a single key that repeats a listed key
Environments ==
    {[keys |-> <<>>, key |-> <<>>],
     [keys |-> <<>>, key |-> <<" ", "a", " ">>],
     [keys |-> <<"a">>, key |-> <<"a">>],
     [keys |-> <<"b", ",", ",", "a", ",", "b">>, key |-> <<>>],
     [keys |-> <<"a", ",", " ", "b", " ", ",", "c">>, key |-> <<"a">>]}

\* what the provider call throws
ApiErrors ==
    {ApiError(<<"Q", "u", "o", "t", "a", " ", "e", "x", "c", "e", "e", "d", "e", "d", " ", "f", "o", "r", " ", "m", "e", "t", "r", "i", "c">>, None, None),
     ApiError(<<"o", "v", "e", "r", "l", "o", "a", "d", "e", "d">>, None, Some(429)),
     ApiError(<<"A", "P", "I", " ", "k", "e", "y", " ", "n", "o", "t", " ", "v", "a", "l", "i", "d">>, Some(400), None),
     ApiError(<<"T", "h", "e", " ", "m", "o", "d", "e", "l", " ", "i", "s", " ", "o", "v", "e", "r", "l", "o", "a", "d", "e", "d">>, Some(503), None),
     ApiError(<<"f", "e", "t", "c", "h", " ", "f", "a", "i", "l", "e", "d">>, None, None),
     ApiError(<<"b", "o", "o", "m">>, Some(500), None)}

\* classifyApiError on each of them
InfoOf == [error \in ApiErrors |-> classifyApiError(error)]

\* the answer of the outer catch to each of them
StatusOf == [error \in ApiErrors |-> failureStatus(error)]

\* getApiKeys under each of them
KeysOf == [env \in Environments |-> getApiKeys(env)]

InitChat ==
    /\ products = <<>>
    /\ embeddingMap = NoEmbeddings
    /\ registry = NoRegistry
    /\ apiKeyCursor = 0
    /\ requests = [r \in RequestIds |-> NewRequest]
    /\ op = "POST"
    /\ args \in [env : Environments]
    /\ ret = NoCall
    /\ calls = 0
    /\ first = NoCall

\* POST after the body is read: the key list is taken; without a key the
\* response is 500
Receive(r) ==
    /\ op = "POST"
    /\ requests[r].pc = "new"
    /\ LET taken == getOrderedApiKeys(KeysOf[args.env], apiKeyCursor)
       IN /\ apiKeyCursor' = taken.apiKeyCursor
          /\ requests' = [requests EXCEPT ![r] =
                 IF Len(taken.keys) = 0
                 THEN ChatRequest("done", taken.keys, 0, None, Some(500), calls + 1)
                 ELSE ChatRequest("embedding", taken.keys, 0, None, None, calls + 1)]
    /\ calls' = calls + 1
    /\ UNCHANGED <<products, embeddingMap, registry, op, args, ret, first>>

\* the query embedding has arrived, the context is built and the loop over
\* the keys starts
Embedded(r) ==
    /\ op = "POST"
    /\ requests[r].pc = "embedding"
    /\ requests' = [requests EXCEPT ![r].pc = "calling"]
    /\ UNCHANGED <<products, embeddingMap, registry, apiKeyCursor, op, args, ret,
                   calls, first>>

\* one turn of the loop: the call with the key at keyIndex streams
Streams(r) ==
    /\ op = "POST"
    /\ requests[r].pc = "calling"
    /\ requests' = [requests EXCEPT ![r].pc = "done", ![r].status = Some(200)]
    /\ UNCHANGED <<products, embeddingMap, registry, apiKeyCursor, op, args, ret,
                   calls, first>>

\* one turn of the loop: the call with the key at keyIndex throws; the loop
\* goes to the next key or breaks, and the outer catch answers
Fails(r) ==
    /\ op = "POST"
    /\ requests[r].pc = "calling"
    /\ \E error \in ApiErrors :
          requests' = [requests EXCEPT ![r] =
              IF triesNextKey(InfoOf[error],
                              requests[r].keyIndex < Len(requests[r].orderedApiKeys) - 1)
              THEN [@ EXCEPT !.lastError = Some(error), !.keyIndex = @ + 1]
              ELSE [@ EXCEPT !.lastError = Some(error), !.pc = "done",
                             !.status = Some(StatusOf[error])]]
    /\ UNCHANGED <<products, embeddingMap, registry, apiKeyCursor, op, args, ret,
                   calls, first>>

Handler(r) == Embedded(r) \/ Streams(r) \/ Fails(r)

NextChat == \E r \in RequestIds : Receive(r) \/ Handler(r)

SpecChat == InitChat /\ [][NextChat]_vars

\* every request that has been received runs to its response
SpecChatFair == SpecChat /\ \A r \in RequestIds : WF_vars(Handler(r))


----------------------------------------------------------------------------
(* build-score-gauge.tsx: the letter the gauge shows *)

\* the threshold of A taken as 90
gaugeCalculateGradeA90(score) ==
    IF score >= 95 THEN "S"
    ELSE IF score >= 90 THEN "A"
    ELSE IF score >= 70 THEN "B"
    ELSE IF score >= 55 THEN "C"
    ELSE IF score >= 40 THEN "D"
    ELSE "F"

\* calculateGrade of build-score-gauge.tsx
gaugeCalculateGrade(score) ==
    IF score >= 95 THEN "S"
    ELSE IF score >= 85 THEN "A"
    ELSE IF score >= 70 THEN "B"
    ELSE IF score >= 55 THEN "C"
    ELSE IF score >= 40 THEN "D"
    ELSE "F"

gradeLabel(finalGrade) ==
    CASE finalGrade = "S" -> "Perfect!"
      [] finalGrade = "A" -> "Excellent"
      [] finalGrade = "B" -> "Good"
      [] finalGrade = "C" -> "Fair"
      [] finalGrade = "D" -> "Needs Work"
      [] finalGrade = "F" -> "Critical Issues"
      [] OTHER -> ""

\* what BuildScoreGauge renders of its props: the letter and its label
BuildScoreGauge(props) ==
    LET finalGrade == IF props.grade # None THEN props.grade[1]
                      ELSE gaugeCalculateGrade(props.score)
    IN  [finalGrade |-> finalGrade, gradeLabel |-> gradeLabel(finalGrade)]

GradeLetters == {"S", "A", "B", "C", "D", "F"}

\* the props of a gauge: a score, and a grade or none
GaugeProps == [score : 0..MaxScore, grade : {None} \cup {Some(g) : g \in GradeLetters}]

InitGauge ==
    /\ products = FullCatalog
    /\ embeddingMap = NoEmbeddings
    /\ registry = NoRegistry
    /\ apiKeyCursor = 0
    /\ requests = NoRequests
    /\ op = "BuildScoreGauge"
    /\ args \in [props : GaugeProps, parsedBuild : RoastBuilds]
    /\ ret = NoCall
    /\ calls = 0
    /\ first = NoCall

\* the roast of an analysis that has the score of the props
RoastOfScore ==
    /\ op = "BuildScoreGauge"
    /\ first = NoCall
    /\ first' = LET roast == generateRoastSuggestions(
                                 AnalysisOf(<<>>, 60000, args.props.score), args.parsedBuild)
                IN  <<roast.score, roast.grade>>
    /\ calls' = calls + 1
    /\ UNCHANGED <<products, embeddingMap, registry, apiKeyCursor, requests, op, args, ret>>

\* one rendering of the gauge
RenderGauge ==
    /\ op = "BuildScoreGauge"
    /\ ret = NoCall
    /\ ret' = LET shown == BuildScoreGauge(args.props)
              IN  <<shown.finalGrade, shown.gradeLabel>>
    /\ calls' = calls + 1
    /\ UNCHANGED <<products, embeddingMap, registry, apiKeyCursor, requests, op, args, first>>

NextGauge == RoastOfScore \/ RenderGauge

SpecGauge == InitGauge /\ [][NextGauge]_vars


----------------------------------------------------------------------------
(* Properties of the ranker, checked under SpecRanker *)

Optimized == op = "optimizeResultsForQuery" /\ calls > 0

CountOfCategory(list, c) == Cardinality({i \in 1..Len(list) : list[i].category = c})

\* the items the loop over BUILD_CATEGORIES selected for the current request
BalancedOfRequest ==
    selectByCategory(dedupeProducts(args.initialResults),
                     parseBudgetFromQuery(args.query), products, 1, <<>>)

\* C1 as stated: for a build query the returned list holds at most one item
\* of each of the eight required categories.
C1_OnePerCategoryInResult ==
    (Optimized /\ isBuildQuery(args.query)) =>
        \A c \in Range(BUILD_CATEGORIES) : CountOfCategory(ret, c) <= 1

\* C1 amended: for a build query the items placed by the loop over the
\* required categories, which head the returned list, hold at most one item
\* of each category; only the top-up behind them can repeat a category.
C1_OnePerCategoryBeforeTopUp ==
    (Optimized /\ isBuildQuery(args.query)) =>
        LET head == SubSeq(ret, 1, Min(Len(BalancedOfRequest), Len(ret)))
        IN \A c \in Range(BUILD_CATEGORIES) : CountOfCategory(head, c) <= 1

\* C1 witness: a build query whose top-up added a second item of a category
\* the category loop had already filled.
C1_Witness ==
    /\ Optimized
    /\ isBuildQuery(args.query)
    /\ \E i \in 1..Len(ret) :
        /\ i > Len(BalancedOfRequest)
        /\ \E j \in 1..Len(BalancedOfRequest) : ret[j].category = ret[i].category

\* C2: for every query and every limit >= 0 the returned list has at most
\* `limit` items.
C2_AtMostLimit == Optimized => Len(ret) <= args.limit

\* C2 witness: a build query whose category loop selected more items than the
\* limit allows, so that the result was cut to exactly the limit.
C2_Witness ==
    /\ Optimized
    /\ isBuildQuery(args.query)
    /\ args.limit > 0
    /\ Len(BalancedOfRequest) > args.limit
    /\ Len(ret) = args.limit

\* the budget shares, in percent, as the scenario states them
ScenarioShare(c) ==
    CASE c = "GPU" -> 35 [] c = "CPU" -> 25 [] c = "Motherboard" -> 15
      [] c = "RAM" -> 10 [] c = "Storage" -> 8 [] c = "PSU" -> 8
      [] c = "Case" -> 8 [] c = "CPU Cooler" -> 5

\* price <= 1.5 x share x 80,000
WithinScenarioShare(p) == 200 * p.price <= 3 * ScenarioShare(p.category) * 80000

ScenarioRequest ==
    /\ Optimized
    /\ args.query = Q80kGamingPc
    /\ args.initialResults = <<>>
    /\ args.limit >= 8
    /\ \A c \in Range(BUILD_CATEGORIES) :
        \E i \in 1..Len(products) : products[i].category = c /\ InStock(products[i])

\* C3 as stated: for the 80k scenario the result is non-empty, touches all
\* eight categories and every selected item costs at most 1.5 x its
\* category's share of the budget.
C3_AllWithinShare ==
    ScenarioRequest =>
        /\ ret # <<>>
        /\ \A c \in Range(BUILD_CATEGORIES) : CountOfCategory(ret, c) >= 1
        /\ \A i \in 1..Len(ret) : WithinScenarioShare(ret[i])

\* C3 amended: for the 80k scenario the budget is detected as 80,000, the
\* result is non-empty and touches all eight categories, and the selected
\* item of a category costs at most 1.5 x the category's share whenever the
\* catalog holds an in-stock item of that category within that bound.
C3_WithinShareWhenAvailable ==
    ScenarioRequest =>
        /\ parseBudgetFromQuery(args.query) = 80000
        /\ ret # <<>>
        /\ \A c \in Range(BUILD_CATEGORIES) : CountOfCategory(ret, c) >= 1
        /\ \A i \in 1..Len(ret) :
            (\E k \in 1..Len(products) :
                /\ products[k].category = ret[i].category
                /\ InStock(products[k])
                /\ WithinScenarioShare(products[k]))
            => WithinScenarioShare(ret[i])

\* C3 witness: the scenario ran on a catalog whose cooler shelf holds an
\* in-stock item within the bound and one above it, and eight items came back.
C3_Witness ==
    /\ ScenarioRequest
    /\ Len(ret) = 8
    /\ \E k \in 1..Len(products) :
        products[k].category = "CPU Cooler" /\ InStock(products[k])
        /\ ~WithinScenarioShare(products[k])
    /\ \E k \in 1..Len(products) :
        products[k].category = "CPU Cooler" /\ InStock(products[k])
        /\ WithinScenarioShare(products[k])

\* the initial results hold no item of category c
MissingFromInitial(c) ==
    \A i \in 1..Len(args.initialResults) : args.initialResults[i].category # c

InStockOf(c) == {p \in Range(products) : p.category = c /\ InStock(p)}

\* price <= 1.5 x share x budget
WithinShare(p, budget) == 200 * p.price <= 3 * ScenarioShare(p.category) * budget

\* 100 x the distance of the price from share x budget
ShareDistance(p, budget) == Abs(100 * p.price - ScenarioShare(p.category) * budget)

Cheapest(p, S) == p \in S /\ \A q \in S : p.price <= q.price

Nearest(p, S, budget) ==
    p \in S /\ \A q \in S : ShareDistance(p, budget) <= ShareDistance(q, budget)

\* C19 as stated: for a required category without an item among the initial
\* results, and a known budget, the selected item is the cheapest in-stock item
\* of the category priced within 1.5 x the category's target; without such an
\* item it is the cheapest in-stock item of the category; without an in-stock
\* item the slot is omitted
C19_CheapestWithinBound ==
    (Optimized /\ isBuildQuery(args.query)) =>
        LET slotOk(slot, near, all) ==
                IF all = {} THEN slot = <<>>
                ELSE Len(slot) = 1 /\ Cheapest(slot[1], IF near # {} THEN near ELSE all)
            holds(budget, balanced) ==
                budget > 0 =>
                    \A c \in Range(BUILD_CATEGORIES) :
                        MissingFromInitial(c) =>
                            slotOk(SelectSeq(balanced, LAMBDA p : p.category = c),
                                   {p \in InStockOf(c) : WithinShare(p, budget)},
                                   InStockOf(c))
        IN holds(parseBudgetFromQuery(args.query), BalancedOfRequest)

\* C19 amended: the selected item is the in-stock item of the category priced
\* within 1.5 x the category's target whose price is nearest to the target;
\* without such an item it is the cheapest in-stock item of the category;
\* without an in-stock item the slot is omitted; the selected item is in the
\* result unless the limit cuts it
C19_NearestWithinBound ==
    (Optimized /\ isBuildQuery(args.query)) =>
        LET slotOk(slot, near, all, budget) ==
                IF all = {} THEN slot = <<>>
                ELSE /\ Len(slot) = 1
                     /\ IF near # {} THEN Nearest(slot[1], near, budget)
                        ELSE Cheapest(slot[1], all)
            holds(budget, balanced) ==
                budget > 0 =>
                    \A c \in Range(BUILD_CATEGORIES) :
                        MissingFromInitial(c) =>
                            /\ slotOk(SelectSeq(balanced, LAMBDA p : p.category = c),
                                      {p \in InStockOf(c) : WithinShare(p, budget)},
                                      InStockOf(c), budget)
                            /\ args.limit >= Len(balanced) =>
                                   SelectSeq(balanced, LAMBDA p : p.category = c)
                                       = SelectSeq(ret, LAMBDA p : p.category = c)
        IN holds(parseBudgetFromQuery(args.query), BalancedOfRequest)

\* C19 witness: the cooler shelf holds two in-stock items within the bound, the
\* cheaper one farther from the target, and the result holds the nearer one
C19_Witness ==
    /\ Optimized
    /\ args.query = Q80kGamingPc
    /\ MissingFromInitial("CPU Cooler")
    /\ cool1 \in InStockOf("CPU Cooler") /\ cool4 \in InStockOf("CPU Cooler")
    /\ WithinShare(cool1, 80000) /\ WithinShare(cool4, 80000)
    /\ cool4 \in Range(ret)
    /\ cool1 \notin Range(ret)

----------------------------------------------------------------------------
(* Properties of the analyzer, checked under SpecAnalyzer *)

Analyzed == op = "analyzeBuild" /\ calls >= 1

SetMin(S) == CHOOSE x \in S : \A y \in S : x <= y

SetMax(S) == CHOOSE x \in S : \A y \in S : y <= x

\* positions of the resolved components of a category
ResolvedPositions(cs, category) ==
    {i \in 1..Len(cs) : cs[i].category = category /\ cs[i].matchedProduct # None}

\* positions at which a category has its first resolved component
FirstPositions(cs) ==
    SelectSeq([i \in 1..Len(cs) |-> i],
              LAMBDA i : /\ cs[i].matchedProduct # None
                         /\ i = SetMin(ResolvedPositions(cs, cs[i].category)))

\* the build reduced to the first resolved component of each category
KeepFirst(cs) == [j \in 1..Len(FirstPositions(cs)) |-> cs[FirstPositions(cs)[j]]]

\* the build reduced to the last resolved component of each category, the
\* categories in the order of their first resolved component
KeepLast(cs) ==
    [j \in 1..Len(FirstPositions(cs)) |->
        cs[SetMax(ResolvedPositions(cs, cs[FirstPositions(cs)[j]].category))]]

RECURSIVE SumPrices(_)
SumPrices(cs) ==
    IF cs = <<>> THEN 0 ELSE cs[1].matchedProduct[1].price + SumPrices(Tail(cs))

\* the product of the last resolved component of a category, if any
Kept(category) ==
    LET cs == args.build.components
    IN IF ResolvedPositions(cs, category) = {} THEN None
       ELSE cs[SetMax(ResolvedPositions(cs, category))].matchedProduct

IssuesTitled(title) == SelectSeq(ret.issues, LAMBDA issue : issue.title = title)

CountSeverity(issues, severity) ==
    Cardinality({i \in 1..Len(issues) : issues[i].severity = severity})

C5_ScoreFormula ==
    Analyzed =>
        LET c == CountSeverity(ret.issues, "critical")
            w == CountSeverity(ret.issues, "warning")
            n == CountSeverity(ret.issues, "info")
        IN /\ c + w + n = Len(ret.issues)
           /\ ret.overallScore = Max(0, 100 - 25 * c - 10 * w - 5 * n)
           /\ ret.overallScore \in 0..100

\* an analysis whose penalties exceed 100 and whose score is 0
C5_Witness ==
    /\ Analyzed
    /\ 25 * CountSeverity(ret.issues, "critical")
         + 10 * CountSeverity(ret.issues, "warning")
         + 5 * CountSeverity(ret.issues, "info") > 100
    /\ ret.overallScore = 0

PsuScenario ==
    /\ Analyzed
    /\ Kept("CPU") # None /\ Kept("GPU") # None /\ Kept("PSU") # None
    /\ Kept("CPU")[1].specs.tdp = Some(<<"6", "5", "W">>)
    /\ Kept("GPU")[1].specs.tdp = Some(<<"2", "2", "0", "W">>)
    /\ Kept("PSU")[1].specs.wattage = Some(450)

\* exactly one critical PSU issue, on a draw of 385 W, recommending w watts
OnePsuIssueRecommending(w) ==
    /\ Len(IssuesTitled("Insufficient PSU Wattage")) = 1
    /\ LET issue == IssuesTitled("Insufficient PSU Wattage")[1]
       IN /\ issue.type = "psu_warning"
          /\ issue.severity = "critical"
          /\ issue.params.estimatedTDP = 65 + 220 + 100
          /\ issue.params.psuWattage = 450
          /\ 10 * issue.params.psuWattage < 12 * issue.params.estimatedTDP
          /\ issue.params.recommendedWattage = w

\* C8 as stated: the recommended minimum wattage is 500 W
C8_Recommends500 == PsuScenario => OnePsuIssueRecommending(500)

\* C8: in the 65 W + 220 W + 450 W scenario the draw is estimated at 385 W,
\* 450 W is below 462 W, and exactly one critical PSU issue is emitted; its
\* recommended minimum wattage is 550 W
C8_Recommends550 == PsuScenario => OnePsuIssueRecommending(550)

\* the scenario has been analyzed among a complete set of other components
C8_Witness ==
    /\ PsuScenario
    /\ Len(args.build.components) >= 6
    /\ OnePsuIssueRecommending(550)

\* both sockets are present and differ
SocketsDiffer ==
    /\ Kept("CPU") # None /\ Kept("Motherboard") # None
    /\ Kept("CPU")[1].specs.socket # None
    /\ Kept("Motherboard")[1].specs.socket # None
    /\ Kept("CPU")[1].specs.socket # Kept("Motherboard")[1].specs.socket

\* C9: a critical socket-mismatch issue is emitted when the CPU and the
\* Motherboard both carry a socket and the two differ, whatever the other
\* components are, and none when the sockets are equal or either is absent
C9_SocketMismatchIff ==
    Analyzed =>
        IF SocketsDiffer
        THEN /\ Len(IssuesTitled("Socket Mismatch")) = 1
             /\ IssuesTitled("Socket Mismatch")[1].severity = "critical"
             /\ IssuesTitled("Socket Mismatch")[1].type = "compatibility"
        ELSE IssuesTitled("Socket Mismatch") = <<>>

\* an LGA1700 CPU on an AM5 board among other components raised the issue
C9_Witness ==
    /\ Analyzed
    /\ SocketsDiffer
    /\ Kept("CPU")[1].specs.socket = Some(<<"L", "G", "A", "1", "7", "0", "0">>)
    /\ Kept("Motherboard")[1].specs.socket = Some(<<"A", "M", "5">>)
    /\ Len(args.build.components) >= 5
    /\ Len(IssuesTitled("Socket Mismatch")) = 1

\* the rated speed of a RAM item in MHz, NaN when it has none
SpeedMHz(ram) ==
    IF TruthyString(ram.specs.speed)
    THEN parseInt(DigitsOnly(ram.specs.speed[1])) ELSE NaN

HasKeyword(p, kw) ==
    includes(toLowerCase(p.name), kw) \/ includes(LowerOrEmpty(p.specs.type), kw)

\* the RAM generation: keywords, otherwise the speed
RamGeneration(ram) ==
    CASE HasKeyword(ram, KwDdr5) -> "DDR5"
      [] ~HasKeyword(ram, KwDdr5) /\ HasKeyword(ram, KwDdr4) -> "DDR4"
      [] OTHER -> IF SpeedMHz(ram) >= 4800 THEN "DDR5"
                  ELSE IF SpeedMHz(ram) \in 2133..4799 THEN "DDR4"
                  ELSE "null"

\* the chipset table
ChipsetGeneration(chipset) ==
    CASE includesAny(chipset, <<<<"b", "6", "5", "0">>, <<"x", "6", "7", "0">>, <<"x", "8", "7", "0">>>>) -> "DDR5"
      [] OTHER ->
         IF includesAny(chipset, <<<<"b", "5", "5", "0">>, <<"x", "5", "7", "0">>, <<"b", "4", "5", "0">>>>) THEN "DDR4"
         ELSE IF includesAny(chipset, <<<<"z", "7", "9", "0">>, <<"z", "6", "9", "0">>>>) THEN "DDR5"
         ELSE IF includesAny(chipset, <<<<"b", "6", "6", "0">>, <<"h", "6", "7", "0">>, <<"b", "7", "6", "0">>>>) THEN "DDR4"
         ELSE "null"

\* the board generation: keywords, otherwise the chipset table
BoardGeneration(mobo) ==
    CASE HasKeyword(mobo, KwDdr5) -> "DDR5"
      [] ~HasKeyword(mobo, KwDdr5) /\ HasKeyword(mobo, KwDdr4) -> "DDR4"
      [] OTHER -> ChipsetGeneration(LowerOrEmpty(mobo.specs.chipset))

RamAndBoard == Analyzed /\ Kept("RAM") # None /\ Kept("Motherboard") # None

GenerationsDiffer ==
    /\ RamGeneration(Kept("RAM")[1]) # "null"
    /\ BoardGeneration(Kept("Motherboard")[1]) # "null"
    /\ RamGeneration(Kept("RAM")[1]) # BoardGeneration(Kept("Motherboard")[1])

SubjectCategory(issue) ==
    CASE issue.type = "psu_warning" -> "PSU"
      [] issue.type = "cooling_inadequate" -> "CPU Cooler"
      [] issue.type = "overspending" -> issue.params[1]

\* C11: every issue that analyzeBuild returns with an alternativeProduct
\* names a catalog item that is in stock and of the category the issue is
\* about (PSU, CPU Cooler, or the category of the overspent item)
C11_AlternativesInStock ==
    Analyzed =>
        \A i \in 1..Len(ret.issues) :
            ret.issues[i].alternativeProduct # None =>
                /\ InStock(ret.issues[i].alternativeProduct[1])
                /\ ret.issues[i].alternativeProduct[1].category
                       = SubjectCategory(ret.issues[i])

\* both items of a rule are resolved
BothKept(a, b) == Kept(a) # None /\ Kept(b) # None

\* C12: a rule of analyzeBuild whose specification field is absent on a
\* resolved item emits no issue: a socket of the CPU or the Motherboard, the
\* wattage of the PSU or the TDP text of the CPU or the GPU, the height of
\* the cooler or the cooler clearance of the case, the length of the GPU or
\* the GPU clearance of the case, a RAM or board generation that no field
\* determines
C12_AbsentFieldSkipsRule ==
    Analyzed =>
        /\ ( /\ BothKept("CPU", "Motherboard")
             /\ \/ Kept("CPU")[1].specs.socket = None
                \/ Kept("Motherboard")[1].specs.socket = None )
              => IssuesTitled("Socket Mismatch") = <<>>
        /\ ( /\ BothKept("CPU", "GPU") /\ Kept("PSU") # None
             /\ \/ Kept("PSU")[1].specs.wattage = None
                \/ Kept("CPU")[1].specs.tdp = None
                \/ Kept("GPU")[1].specs.tdp = None )
              => IssuesTitled("Insufficient PSU Wattage") = <<>>
        /\ ( /\ BothKept("CPU Cooler", "Case")
             /\ \/ Kept("CPU Cooler")[1].specs.height_mm = None
                \/ Kept("Case")[1].specs.max_cooler_height_mm = None )
              => IssuesTitled("Cooler Won't Fit") = <<>>
        /\ ( /\ BothKept("GPU", "Case")
             /\ \/ Kept("GPU")[1].specs.length_mm = None
                \/ Kept("Case")[1].specs.max_gpu_length_mm = None )
              => IssuesTitled("GPU Won't Fit") = <<>>
        /\ ( /\ BothKept("RAM", "Motherboard")
             /\ \/ RamGeneration(Kept("RAM")[1]) = "null"
                \/ BoardGeneration(Kept("Motherboard")[1]) = "null" )
              => IssuesTitled("RAM Type Mismatch") = <<>>
        /\ ( /\ Kept("CPU") # None /\ Kept("CPU Cooler") = None
             /\ Kept("CPU")[1].specs.tdp = None )
              => IssuesTitled("Cooling May Be Insufficient") = <<>>

\* the catalog PSUs of at least w watts
PsusOfAtLeast(w) ==
    {p \in Range(products) :
        p.category = "PSU" /\ p.specs.wattage # None /\ p.specs.wattage[1] >= w}

\* w is the next multiple of 50 at or above 1.3 x the estimated draw
NextFiftyAbove(w, estimatedTDP) ==
    /\ w % 50 = 0
    /\ 10 * w >= 13 * estimatedTDP
    /\ 10 * (w - 50) < 13 * estimatedTDP

\* C20: the alternative of the PSU-insufficient issue is the cheapest catalog
\* PSU whose wattage is at least the recommended wattage, the next multiple of
\* 50 W at or above 1.3 x the estimated draw, and is absent when no catalog PSU
\* reaches that wattage
C20_CheapestSufficientPsu ==
    Analyzed =>
        \A i \in 1..Len(ret.issues) :
            ret.issues[i].type = "psu_warning" =>
                LET issue == ret.issues[i]
                    sufficient == PsusOfAtLeast(issue.params.recommendedWattage)
                IN /\ NextFiftyAbove(issue.params.recommendedWattage,
                                     issue.params.estimatedTDP)
                   /\ sufficient = {} => issue.alternativeProduct = None
                   /\ sufficient # {} =>
                          /\ issue.alternativeProduct # None
                          /\ issue.alternativeProduct[1] \in sufficient
                          /\ \A q \in sufficient :
                                 issue.alternativeProduct[1].price <= q.price

\* the in-stock catalog items other than product, of its category and its
\* performance tier, priced at no more than 75 % of its price
CheaperSameTier(product) ==
    {p \in Range(products) :
        /\ p.category = product.category
        /\ p.id # product.id
        /\ InStock(p)
        /\ p.performance_tier = product.performance_tier
        /\ 4 * p.price <= 3 * product.price}

LowestPrice(S) == SetMin({p.price : p \in S})

OverspendingIssuesOf(category) ==
    SelectSeq(ret.issues,
              LAMBDA issue : issue.type = "overspending" /\ issue.params[1] = category)

\* C21: for every resolved category an info-level overspending issue is
\* emitted exactly when another in-stock catalog item of the same category and
\* performance tier is priced at no more than 75 % of the selected item's
\* price (exactly 75 % counts) and the saving against the cheapest such item
\* is at least 2000; the alternative of the issue is that cheapest item and
\* its savingsAmount is the price difference
C21_OverspendingIff ==
    Analyzed =>
        \A category \in {args.build.components[i].category :
                            i \in 1..Len(args.build.components)} :
            Kept(category) # None =>
                LET product == Kept(category)[1]
                    cheaper == CheaperSameTier(product)
                    issues == OverspendingIssuesOf(category)
                    due == /\ cheaper # {}
                           /\ product.price - LowestPrice(cheaper) >= 2000
                IN /\ Len(issues) = (IF due THEN 1 ELSE 0)
                   /\ due =>
                        /\ issues[1].severity = "info"
                        /\ issues[1].alternativeProduct # None
                        /\ issues[1].alternativeProduct[1] \in cheaper
                        /\ issues[1].alternativeProduct[1].price = LowestPrice(cheaper)
                        /\ issues[1].savingsAmount
                               = Some(product.price - LowestPrice(cheaper))

----------------------------------------------------------------------------
(* Properties of the parser, checked under SpecParser *)

\* parseBuildList has returned a ParsedBuild
Parsed == op = "parseBuildList" /\ calls >= 1 /\ ret # TypeError

\* C7 as stated: the returned ParsedBuild holds at most one component per
\* category, whichever path (table, URL, line by line) assigned it
C7_OneComponentPerCategory ==
    Parsed =>
        \A i, j \in 1..Len(ret.components) :
            i # j => ret.components[i].category # ret.components[j].category

\* the fragments of an input that a result reports as unmatched
Reported(result) == {result.unmatchedText[i] : i \in 1..Len(result.unmatchedText)}

\* the non-empty fragments of an input
FragmentsOf(input) == {linesOf(input)[i] : i \in 1..Len(linesOf(input))}

\* C13: parseBuildList never raises, and when it recognises no component it
\* returns an empty component list and every non-empty fragment of the input,
\* URL lines and unmappable table rows included, is in unmatchedText.
C13_NeverRaisesKeepsFragments ==
    (op = "parseBuildList" /\ calls >= 1) =>
        /\ ret # TypeError
        /\ ret.components = <<>> => FragmentsOf(args.input) \subseteq Reported(ret)

\* the components of the marketplace URLs followed by those of the lines
StructuredOf(input) ==
    LET afterUrls(urlComponents) ==
            lineLoop(linesOf(input), products, 1, urlComponents, <<>>,
                     {urlComponents[i].category : i \in 1..Len(urlComponents)})
    IN afterUrls(extractComponentsFromURLs(input, products))

\* C24: the first successful path of parseBuildList wins: when the input is
\* detected as a table and the table yields a component, the result is the
\* table result and holds nothing of the URLs or the lines; otherwise, when
\* the URLs and the lines yield a component, the result is theirs and the
\* whole-input fallback has not run; the fallback alone gives the components
\* when the earlier paths gave none, at most one per category
C24_FirstSuccessfulPathWins ==
    Parsed =>
        LET holds(isTable, table, structured) ==
                IF isTable /\ Len(table.components) > 0
                THEN ret = ParsedBuild(table.components, table.unmatchedText)
                ELSE IF Len(structured.components) > 0
                THEN ret = structured
                ELSE /\ ret.components
                            = (IF trim(args.input) # <<>>
                               THEN extractComponentsFromText(args.input, products)
                               ELSE <<>>)
                     /\ \A i, j \in 1..Len(ret.components) :
                            i # j => ret.components[i].category
                                         # ret.components[j].category
        IN holds(isPCPartPickerFormat(args.input),
                 parsePCPartPickerFormat(args.input, products),
                 StructuredOf(args.input))

\* C24 witness: a table with a component, followed by a marketplace URL that
\* resolves to a component of its own
C24_Witness ==
    /\ Parsed
    /\ isPCPartPickerFormat(args.input)
    /\ Len(ret.components) > 0
    /\ Len(extractComponentsFromURLs(args.input, products)) > 0
    /\ \A i \in 1..Len(ret.components) : ret.components[i].category = "CPU"

\* the fallback over the whole input has given two components
C24_FallbackReached ==
    /\ Parsed
    /\ ~isPCPartPickerFormat(args.input)
    /\ Len(StructuredOf(args.input).components) = 0
    /\ Len(ret.components) = 2

\* s holds t, whatever the case of the letters
ContainsText(s, t) == includes(toLowerCase(s), toLowerCase(t))

\* the confidence of a component bound to item, in hundredths
ConfidenceOfBound(fragment, item) ==
    IF ContainsText(fragment, item.normalized_name) THEN 95
    ELSE IF ContainsText(fragment, item.brand) THEN 80
    ELSE 60

\* C25: every component returned by parseBuildList has a confidence in [0, 1]
\* (here in hundredths): 0.95 when the fragment that was resolved holds the
\* full normalized name of the bound item, 0.8 when it holds only the brand,
\* 0.6 for any other bound item; an unresolved component has 0.3 when it comes
\* from a URL and 0.4 when it comes from a table; the confidence is at least
\* 0.6 exactly when an item is bound. The fragment is the component's raw
\* text, and the whole input for the components of the whole-input fallback
C25_ConfidenceByResolution ==
    Parsed =>
        LET holds(fromTable, fromFallback) ==
                \A i \in 1..Len(ret.components) :
                    LET c == ret.components[i]
                        fragment == IF fromFallback THEN args.input ELSE c.rawText
                    IN /\ c.confidence \in 0..100
                       /\ c.matchedProduct # None =>
                              c.confidence = ConfidenceOfBound(fragment, c.matchedProduct[1])
                       /\ (c.matchedProduct = None /\ c.sourceURL # None) =>
                              c.confidence = 30
                       /\ (c.matchedProduct = None /\ fromTable) => c.confidence = 40
                       /\ (c.confidence >= 60) <=> (c.matchedProduct # None)
            paths(tableWon, structured) ==
                holds(tableWon, ~tableWon /\ Len(structured.components) = 0)
        IN paths(/\ isPCPartPickerFormat(args.input)
                 /\ Len(parsePCPartPickerFormat(args.input, products).components) > 0,
                 StructuredOf(args.input))

\* C25 witness: the result holds a component bound through the brand alone
\* next to an unresolved component of a URL
C25_Witness ==
    /\ Parsed
    /\ \E i, j \in 1..Len(ret.components) :
          /\ ret.components[i].matchedProduct # None
          /\ ret.components[i].confidence = 80
          /\ ret.components[j].matchedProduct = None
          /\ ret.components[j].sourceURL # None
          /\ ret.components[j].confidence = 30

(* Properties of the search functions, checked under SpecSearch *)

\* C14: in vectorSearch on a build query, the suitability weighting only lowers
\* an item's rank and never removes it: with a limit that cuts nothing, every
\* item the ranking without weights returns is returned with the weights too
C14_WeightingNeverExcludes ==
    (/\ op = "vectorSearch" /\ calls >= 1
     /\ args.query # None /\ args.query[1] # <<>> /\ isBuildQuery(args.query[1])
     /\ args.limit >= Len(products)) =>
        Range(vectorSearchUnweighted(args.queryEmbedding, args.limit, products, embeddingMap))
            \subseteq Range(ret)

(* Properties of cosineSimilarity, checked under SpecCosine *)

Magnitude0(v) == \A i \in 1..Len(v) : v[i] = 0

\* C16: cosineSimilarity is total and bounded: for two vectors of equal length
\* the result lies in [-1, 1], and the result is exactly 0 when the lengths
\* differ or a vector has zero magnitude
C16_TotalAndBounded ==
    (op = "cosineSimilarity" /\ calls >= 1) =>
        IF Len(args.a) # Len(args.b) \/ Magnitude0(args.a) \/ Magnitude0(args.b)
        THEN ret = Zero
        ELSE /\ Compare(ret, NumberOf(-1)) >= 0
             /\ Compare(ret, NumberOf(1)) <= 0

(* Properties of the roast, checked under SpecRoast *)

Roasted == op = "generateRoastSuggestions" /\ calls >= 1

\* the grades from worst to best
GradeRank(grade) ==
    CASE grade = "F" -> 0 [] grade = "D" -> 1 [] grade = "C" -> 2
      [] grade = "B" -> 3 [] grade = "A" -> 4 [] grade = "S" -> 5

GradeOfThresholds(score) ==
    CASE score >= 95 -> "S"
      [] score < 95 /\ score >= 85 -> "A"
      [] score < 85 /\ score >= 70 -> "B"
      [] score < 70 /\ score >= 55 -> "C"
      [] score < 55 /\ score >= 40 -> "D"
      [] score < 40 -> "F"

\* C17: the grade of a roast result is given by the overall score alone through
\* the thresholds 95 S, 85 A, 70 B, 55 C, 40 D, else F, and no lower score in
\* 0..100 has a better grade
C17_GradeByThresholds ==
    Roasted =>
        /\ ret.score = args.analysis.overallScore
        /\ ret.grade = GradeOfThresholds(ret.score)
        /\ \A lower \in 0..ret.score :
               GradeRank(calculateGrade(lower)) <= GradeRank(ret.grade)

\* a roast of a score on a threshold, with suggestions
C17_Witness ==
    /\ Roasted
    /\ ret.score = 85 /\ ret.grade = "A"
    /\ Len(ret.suggestions) > 0

\* the priority the issue's type fixes; a type outside the list copies the
\* severity
PriorityOfIssue(issue) ==
    CASE issue.type \in {"psu_warning", "compatibility", "ram_compatibility",
                         "chipset_mismatch"} -> "critical"
      [] issue.type \in {"bottleneck", "cooling_inadequate"} -> "high"
      [] issue.type = "overspending" -> "low"
      [] issue.type = "missing" -> "medium"
      [] OTHER -> CASE issue.severity = "critical" -> "critical"
                    [] issue.severity = "warning" -> "high"
                    [] issue.severity = "info" -> "low"

\* what a suggestion keeps of its issue, with its priority
SuggestionMark(s) == <<s.issueType, s.reason, s.detailedExplanation[1], s.priority>>

IssueMark(issue) == <<issue.type, issue.title, issue.params, PriorityOfIssue(issue)>>

Occurrences(seq, x) == Cardinality({i \in 1..Len(seq) : seq[i] = x})

IssueMarks(issues) == [i \in 1..Len(issues) |-> IssueMark(issues[i])]

SuggestionMarks(suggestions) ==
    [i \in 1..Len(suggestions) |-> SuggestionMark(suggestions[i])]

PriorityRank(priority) ==
    CASE priority = "critical" -> 1 [] priority = "high" -> 2
      [] priority = "medium" -> 3 [] priority = "low" -> 4

UrgentSuggestions == SelectSeq(ret.suggestions, LAMBDA s : s.priority \in {"critical", "high"})

\* C27: the suggestions are ordered critical, high, medium, low, those of one
\* priority in the order of their issues, and topPriorityFixes is the first
\* min(3, k) of the k suggestions that are critical or high
C27_SortedAndTopThree ==
    Roasted =>
        /\ \A i, j \in 1..Len(ret.suggestions) :
               i < j => PriorityRank(ret.suggestions[i].priority)
                            <= PriorityRank(ret.suggestions[j].priority)
        /\ \A priority \in {"critical", "high", "medium", "low"} :
               SuggestionMarks(SelectSeq(ret.suggestions,
                                         LAMBDA s : s.priority = priority))
                   = IssueMarks(SelectSeq(args.analysis.issues,
                                          LAMBDA issue : PriorityOfIssue(issue) = priority))
        /\ ret.topPriorityFixes
               = SubSeq(UrgentSuggestions, 1, Min(3, Len(UrgentSuggestions)))

\* C27 witness: four issues in the order low, high, critical, high gave four
\* suggestions, of which three are the top fixes
C27_Witness ==
    /\ Roasted
    /\ args.analysis.issues
           = <<IssueOverspending, IssueStorage, IssuePsu, IssueCpuBottleneck>>
    /\ Len(ret.topPriorityFixes) = 3
    /\ ret.suggestions[4].priority = "low"
    /\ ret.suggestions[2].issueType = "storage_slots"

(* Properties of the shared catalog, checked under SpecSession *)

Retrieval == op = "POST" /\ calls >= 1 /\ ret.status = 200

\* the result of the vector path of the handler
VectorPath ==
    optimizeResultsForQuery(args.userQuery,
        vectorSearch(args.queryEmbedding[1], VectorLimit, Some(args.userQuery),
                     products, embeddingMap, registry),
        ContextLimit, products)

\* C18: in the chat handler, when the generation of the query embedding fails
\* the results are those of keywordSearch, and so they are when the vector
\* path returns an empty list; when the chosen search returns nothing the
\* context is the first 100 catalog products, so the context is non-empty
\* whenever the catalog is
C18_KeywordAndCatalogFallback ==
    Retrieval =>
        /\ args.queryEmbedding = None =>
               ret.searchResults = keywordSearch(args.userQuery, ContextLimit, products)
        /\ (args.queryEmbedding # None /\ VectorPath = <<>>) =>
               ret.searchResults = keywordSearch(args.userQuery, ContextLimit, products)
        /\ ret.searchResults = <<>> =>
               ret.finalContextProducts = slice(products, AllProductsLimit)
        /\ ret.searchResults # <<>> => ret.finalContextProducts = ret.searchResults
        /\ products # <<>> => ret.finalContextProducts # <<>>

\* the embedding failed, the keyword search found nothing and the context is
\* the catalog
C18_Witness ==
    /\ Retrieval
    /\ args.queryEmbedding = None
    /\ ret.searchResults = <<>>
    /\ ret.finalContextProducts = products
    /\ products # <<>>

----------------------------------------------------------------------------
(* Properties of parseBudgetFromQuery, checked under SpecBudget *)

Budgeted == op = "parseBudgetFromQuery" /\ calls >= 1

HasDigit(q) == \E i \in 1..Len(q) : IsDigit(q[i])

FirstDigit(q) == SetMin({i \in 1..Len(q) : IsDigit(q[i])})

\* the position after the first number of the query, the run of digits and
\* thousands separators that starts at its first digit
NumberEnd(q) == FirstDigit(q) + RunLen(q, FirstDigit(q), "number")

\* the value N of the first number
FirstNumber(q) == DigitsToNat(DigitsOnly(SubSeq(q, FirstDigit(q), NumberEnd(q) - 1)))

\* the first number is followed, after optional blanks, by a "k" that ends a
\* word
HasKSuffix(q) ==
    LET e == NumberEnd(q) + RunLen(q, NumberEnd(q), "space")
    IN CharAt(q, e) \in {"k", "K"} /\ ~IsWordChar(CharAt(q, e + 1))

\* the first number is a token: it ends the query or a word, or carries the
\* suffix
IsNumericToken(q) == ~IsWordChar(CharAt(q, NumberEnd(q))) \/ HasKSuffix(q)

\* C22: for a query whose first number N is a token, optionally preceded by a
\* currency marker and optionally followed by "k", the detected budget is
\* N x 1000 when N < 1000 and N when N >= 1000 without suffix; a query without
\* a digit yields no budget
C22_BudgetOfFirstNumber ==
    Budgeted =>
        LET q == args.query
        IN IF ~HasDigit(q) THEN ret = NoBudget
           ELSE IsNumericToken(q) =>
                    /\ FirstNumber(q) < 1000 => ret = FirstNumber(q) * 1000
                    /\ (FirstNumber(q) >= 1000 /\ ~HasKSuffix(q)) => ret = FirstNumber(q)

----------------------------------------------------------------------------
(* Properties of dedupeProducts, checked under SpecDedupe *)

Deduped == op = "dedupeProducts" /\ calls >= 1

\* the normalized name of an item: its normalized_name, the name in lower
\* case where it has none
NormalizedName(p) ==
    IF p.normalized_name # <<>> THEN p.normalized_name ELSE toLowerCase(p.name)

SameKey(p, q) ==
    /\ p.category = q.category
    /\ NormalizedName(p) = NormalizedName(q)
    /\ p.price = q.price

\* the positions of the list at which a key occurs for the first time
FirstOccurrences(list) ==
    SelectSeq([i \in 1..Len(list) |-> i],
              LAMBDA i : \A j \in 1..(i - 1) : ~SameKey(list[j], list[i]))

\* C23: dedupeProducts returns the items at the first occurrences of the keys
\* (category, normalized name, price), in the order of the input, so that no
\* two returned items share a key; applied to its own result it returns that
\* result
C23_FirstOccurrencesIdempotent ==
    Deduped =>
        /\ first = [k \in 1..Len(FirstOccurrences(args.list)) |->
                        args.list[FirstOccurrences(args.list)[k]]]
        /\ \A i, j \in 1..Len(first) : i # j => ~SameKey(first[i], first[j])
        /\ calls = 2 => ret = first

\* C23 witness: the list held a later duplicate of an item that is not its
\* neighbour and the function has been applied twice
C23_Witness ==
    /\ Deduped /\ calls = 2
    /\ \E i, j \in 1..Len(args.list) :
          /\ j > i + 1
          /\ SameKey(args.list[i], args.list[j])
          /\ args.list[i].id # args.list[j].id
          /\ ~SameKey(args.list[i], args.list[i + 1])
    /\ Len(ret) < Len(args.list)
    /\ Len(ret) >= 2

----------------------------------------------------------------------------
(* Properties of the chat handler, checked under SpecChat and SpecChatFair *)

RetriedKinds == {"quota_exhausted", "rate_limited"}

\* the kind of the last failure of a request
LastKind(request) == InfoOf[request.lastError[1]].kind

NoKeyTwice(keys) == \A i, j \in 1..Len(keys) : i # j => keys[i] # keys[j]

\* a request between its first model call and its response
KeyLoopState(request) ==
    /\ NoKeyTwice(request.orderedApiKeys)
    /\ request.keyIndex < Len(request.orderedApiKeys)
    /\ (request.pc = "calling" /\ request.keyIndex > 0) =>
           request.lastError # None /\ LastKind(request) \in RetriedKinds
    /\ (request.pc = "done" /\ request.status # Some(200)) =>
           /\ request.lastError # None
           /\ LastKind(request) \in RetriedKinds =>
                  /\ request.status = Some(429)
                  /\ request.keyIndex = Len(request.orderedApiKeys) - 1
           /\ LastKind(request) \notin RetriedKinds =>
                  /\ request.status = Some(InfoOf[request.lastError[1]].statusCode)
                  /\ request.status \in {Some(500), Some(503)}

\* a step of a request in its loop: the index stays or moves to the next key,
\* and it moves only with a failure of a retried kind; a request that has
\* answered does nothing more
KeyLoopStep(r) ==
    /\ requests'[r].keyIndex # requests[r].keyIndex =>
           /\ requests'[r].keyIndex = requests[r].keyIndex + 1
           /\ requests'[r].pc = "calling"
           /\ LastKind(requests'[r]) \in RetriedKinds
    /\ requests[r].pc = "done" => requests'[r] = requests[r]

\* C28: within one request the model call tries the keys of the request's
\* list in order, each at most once; it moves to the next key only after a
\* failure classified as quota_exhausted or rate_limited and stops at the
\* first success or the first failure of another kind; it always ends; when
\* it ends in failure the status is 429 if the last failure was of a retried
\* kind, which then happened on the last key, and the classified status, 500
\* or 503, otherwise
C28_KeyLoop ==
    /\ [](\A r \in RequestIds :
              requests[r].pc \in {"calling", "done"}
              /\ Len(requests[r].orderedApiKeys) > 0 => KeyLoopState(requests[r]))
    /\ [][\A r \in RequestIds : KeyLoopStep(r)]_vars
    /\ \A r \in RequestIds :
           (requests[r].pc = "calling") ~> (requests[r].pc = "done")

\* C28 witness: of three keys one request has used them all and answered 429,
\* and another has streamed with the second key
C28_Witness ==
    \E r, q \in RequestIds :
        /\ Len(requests[r].orderedApiKeys) = 3
        /\ requests[r].pc = "done" /\ requests[r].status = Some(429)
        /\ requests[r].keyIndex = 2
        /\ requests[q].pc = "done" /\ requests[q].status = Some(200)
        /\ requests[q].keyIndex = 1

\* the keys from position start on (counted from 0), then those before it
Rotation(keys, start) ==
    [i \in 1..Len(keys) |-> keys[((i - 1 + start) % Len(keys)) + 1]]

Received == {r \in RequestIds : requests[r].pc # "new"}

\* C29: with n >= 2 configured keys every list that getOrderedApiKeys
\* returned is a rotation of the configured list, that of the k-th call
\* starting at key index (k - 1) mod n, and the cursor has been advanced once
\* per call, whatever the interleaving of the requests; with 0 or 1 keys the
\* list is the configured one and the cursor stays where it was
C29_RoundRobinStart ==
    op = "POST" /\ requests # NoRequests =>
        LET keys == KeysOf[args.env]
            n == Len(keys)
        IN /\ {requests[r].turn : r \in Received} = 1..calls
           /\ Cardinality(Received) = calls
           /\ \A r \in Received :
                  /\ Range(requests[r].orderedApiKeys) = Range(keys)
                  /\ Len(requests[r].orderedApiKeys) = n
                  /\ requests[r].orderedApiKeys
                         = (IF n >= 2 THEN Rotation(keys, (requests[r].turn - 1) % n)
                            ELSE keys)
           /\ apiKeyCursor = (IF n >= 2 THEN calls ELSE 0)

\* C29 witness: with two keys the third call has started at the first key
\* again, while the requests of the first two calls are still under way
C29_Witness ==
    /\ op = "POST" /\ requests # NoRequests
    /\ Len(KeysOf[args.env]) = 2
    /\ \E r, q, p \in RequestIds :
          /\ requests[r].turn = 3 /\ requests[r].orderedApiKeys = KeysOf[args.env]
          /\ requests[q].turn = 2 /\ requests[q].orderedApiKeys # KeysOf[args.env]
          /\ requests[q].pc # "done"
          /\ requests[p].turn = 1 /\ requests[p].pc # "done"

(* Properties of the score gauge, checked under SpecGauge *)

\* a gauge that was given a score and no grade has rendered, and the score has
\* been roasted
GaugeOfScoreAlone ==
    /\ op = "BuildScoreGauge"
    /\ args.props.grade = None
    /\ ret # NoCall
    /\ first # NoCall

\* C30: for every score in 0..100 the letter that a gauge given only the score
\* shows is the grade of the roast result for that score
C30_GaugeGradeIsRoastGrade ==
    GaugeOfScoreAlone =>
        /\ first[1] = args.props.score
        /\ ret[1] = first[2]
        /\ ret[1] = calculateGrade(args.props.score)

\* C30 witness: a gauge given only the score 85, on a threshold, shows A, the
\* grade of the roast of 85
C30_Witness ==
    /\ GaugeOfScoreAlone
    /\ args.props.score = 85
    /\ ret = <<"A", "Excellent">>
    /\ first = <<85, "A">>

====
